---- MODULE Spec2Model ----
(***************************************************************************)
(* State-machine model of the SeismicViewer component                      *)
(* (src/frontend/vite-project/src/App.jsx).                                *)
(*                                                                         *)
(* The component runs on the single UI thread.  One action of the model is *)
(* one macrotask of that thread: an event handler, a timer callback or the *)
(* continuation of an await, together with the React render and the        *)
(* effects that follow it.                                                 *)
(*                                                                         *)
(* Units.  Amplitudes are fixed-point numbers in hundredths (10000 is      *)
(* 100.00); quantiles are in percent (1 is 0.01).  A debounce timer is     *)
(* either pending or not: an event "less than 150 ms after" a slider       *)
(* change is an event that happens while that change's timer is pending.   *)
(* Camera eye components are in thousandths, angles in thousandths of a    *)
(* degree (45000 is 45 degrees).                                           *)
(***************************************************************************)
EXTENDS Integers, Sequences, FiniteSets, Bags, TLC

VARIABLES
    files,                \* useState([])            line 5
    activeFileIndex,      \* useState(0)             line 6
    cubeInfo,             \* useState(null)          line 8  (a dataset, or None)
    loading,              \* useState(false)         line 9
    error,                \* useState(null)          line 10
    sliceVisibility,      \* useState(all true)      line 11
    sliceIndices,         \* committed indices       line 16
    pendingSliceIndices,  \* pending indices         line 21
    sliceData,            \* useState({})            line 26
    isLoadingSlice,       \* useState(false)         line 27
    contextMenu,          \* contextMenu.visible     line 32
    minQuantile,          \* useState(0.01)          line 33
    maxQuantile,          \* useState(0.99)          line 34
    vmin,                 \* useState(null)          line 36
    vmax,                 \* useState(null)          line 37
    amplitudeInitialized, \* useRef(false)           line 41
    debounceTimer,        \* the timeout debounceTimerRef.current names, while pending
    sliceFetches,         \* fetches issued by debounce callbacks, in flight
    uploads,              \* handleFileUpload / handleFileSwitch calls in flight
    serverCube,           \* the cube the backend holds (set by POST /api/upload)
    burst,                \* history: the run of slider changes in progress
    nChanges,             \* history: slider changes so far
    nUploads,             \* history: uploads started so far
    overwrote,            \* history: a stored slice of the committed index was replaced
                          \*          by the answer to a fetch of another index
    lastPreset,           \* history: the quick preset selected by the last amplitude
                          \*          event, and whether the baseline was set before
    rangeBefore,          \* history: the display range in use when the last upload was
                          \*          started over a loaded dataset, until an upload succeeds
    plot,                 \* what Plotly.newPlot last drew in plotDiv, while it is mounted
    matrix,               \* a slice response: data
    coordsX,              \* a slice response: coordinates.x
    coordsY,              \* a slice response: coordinates.y
    responseDefect,       \* a slice response: the part it lacks, if any
    builder,              \* the slice builder that ran on the response, if any
    normalized,           \* the matrix that builder uses after its normalisation step
    trace,                \* what that builder returned
    scene,                \* what create3DVisualization made of the three responses
    inlineVector,         \* cube_info.orientation.inline_vector
    xlineVector,          \* cube_info.orientation.xline_vector
    northArrow,           \* the north direction the orientation resolver returned
    amplitudeRange,       \* a cube_info.amplitude_range handed to the two readers of
                          \*          the base range
    effectBase,           \* baseMin and baseMax of the quantile effect on it (or None)
    fallbackRange,        \* what getAmplitudeRange() returns for it while vmin and
                          \*          vmax are null (or None)
    compassRotation,      \* useState(0)             line 28  (thousandths of a degree)
    cameraEye,            \* plotDiv.current.layout.scene.camera.eye, while plotDiv
                          \*          holds a plot
    listeners,            \* the plotly_relayout listeners on plotDiv (and as many
                          \*          plotly_animated listeners)
    pollIntervals,        \* the running intervals of line 425: the compassRotation
                          \*          the callback of each closed over
    pollIntervalRef,      \* the interval pollIntervalRef.current names
    compassTimeouts,      \* the pending setTimeout(updateCompass, 100) of lines 414
                          \*          and 418, each with the eye at the time it was set
    mounted,              \* the component is mounted
    nMoves,               \* history: camera moves so far
    nNotifications,       \* history: camera-change notifications so far
    reachedEye,           \* history: the camera eye of the last plot plotDiv held
    lastUpdate            \* history: the last updateCompass that set the angle: its
                          \*          caller, the eye it read and, for a timeout, the
                          \*          eye when the timeout was set

appVars == <<files, activeFileIndex, cubeInfo, loading, error, sliceIndices,
             pendingSliceIndices, sliceData, isLoadingSlice, contextMenu,
             minQuantile, maxQuantile, vmin, vmax, amplitudeInitialized,
             debounceTimer, sliceFetches, uploads, serverCube, burst, nChanges, nUploads,
             overwrote, lastPreset, rangeBefore, sliceVisibility, plot>>

orientationVars == <<inlineVector, xlineVector, northArrow>>

builderVars == <<matrix, coordsX, coordsY, responseDefect, builder, normalized, trace,
                 scene>>

rangeVars == <<amplitudeRange, effectBase, fallbackRange>>

meshVars == <<builderVars, orientationVars, rangeVars>>

compassVars == <<compassRotation, cameraEye, listeners, pollIntervals, pollIntervalRef,
                 compassTimeouts, mounted, nMoves, nNotifications, reachedEye,
                 lastUpdate>>

vars == <<appVars, compassVars, meshVars>>

(***************************************************************************)
(* null and undefined.  A value that may be absent is a sequence of length *)
(* at most one: None is null/undefined, Some(v) is the value v.            *)
(***************************************************************************)
None == <<>>

Some(v) == <<v>>

Val(m) == m[1]

Axes == {"inline", "xline", "sample"}

\* the order of loadSliceData's loop
AxisOrder == <<"inline", "xline", "sample">>

\* position of an axis in cube_info.shape
Dim(sliceType) == CASE sliceType = "inline" -> 1
                    [] sliceType = "xline"  -> 2
                    [] sliceType = "sample" -> 3

(***************************************************************************)
(* Bounds of the model.                                                    *)
(***************************************************************************)
\* slider changes (handleSliceChange calls) of a run of the viewer
MaxChanges == 3

\* uploads (handleFileUpload and handleFileSwitch calls) of a run of the viewer
MaxUploads == 2

\* rows and columns of a slice response's data, elements of its coordinate arrays
MaxDim == 2

\* largest component of an orientation vector
MaxComponent == 1

(***************************************************************************)
(* The backend's datasets: the cube_info of the files of the folder.       *)
(***************************************************************************)
\* the folder the user selects: its k-th file holds dataset Folder[k]
Folder == <<1, 2>>

\* cube_info.shape
Shape(ds) == CASE ds = 1 -> <<3, 2, 2>>
               [] ds = 2 -> <<2, 2, 2>>
               [] ds = 3 -> <<2, 2, 1>>

\* cube_info.amplitude_range
AmplitudeRangeOf(ds) ==
    IF ds = 1
    THEN [display_min |-> Some(0), display_max |-> Some(10000),
          actual_min |-> None, actual_max |-> None, min |-> None, max |-> None]
    ELSE [display_min |-> None, display_max |-> None,
          actual_min |-> None, actual_max |-> None,
          min |-> Some(-2000), max |-> Some(4000)]

\* every value a slider can deliver for some dataset
Indices == UNION { 0..(Shape(Folder[k])[d] - 1) : k \in 1..Len(Folder), d \in 1..3 }

\* Math.floor(result.cube_info.shape[d] / 2) for the three axes
MiddleIndices(ds) == [a \in Axes |-> Shape(ds)[Dim(a)] \div 2]

\* what GET /api/slice/{type}/{index} answers with status 2xx: the slice of the
\* backend's cube at that index (its matrix is the subject of the slice builders)
SliceOf(ds, sliceType, index) == [ds |-> ds, index |-> index]

\* the backend can answer 2xx only for an index inside the cube it holds
Servable(sliceType, index) ==
    /\ serverCube # None
    /\ index < Shape(Val(serverCube))[Dim(sliceType)]

(***************************************************************************)
(* AmplitudeRangeController: the effect on [minQuantile, maxQuantile,      *)
(* cubeInfo].                                                              *)
(***************************************************************************)
\* useState(0.01), in percent
DefaultMinQuantile == 1

\* useState(0.99), in percent
DefaultMaxQuantile == 99

\* values the two quantile inputs (min 0..0.5, max 0.5..1, step 0.01) can deliver
MinQuantileInputs == {0, 1, 5, 10, 50}

MaxQuantileInputs == {50, 90, 95, 99, 100}

\* the Quick Presets buttons: Full (0-1), Default, 5-95%
Presets == { [name |-> "Full", min |-> 0, max |-> 100],
             [name |-> "Default", min |-> 1, max |-> 99],
             [name |-> "5-95%", min |-> 5, max |-> 95] }

\* ampRange.display_min !== undefined ? ampRange.display_min : ampRange.min || 0
BaseMin(ampRange) ==
    IF ampRange.display_min # None THEN Val(ampRange.display_min)
    ELSE IF ampRange.min # None THEN Val(ampRange.min) ELSE 0

\* ampRange.display_max !== undefined ? ampRange.display_max : ampRange.max || 1
\* (1 is 100 hundredths; max || 1 also replaces a max of 0)
BaseMax(ampRange) ==
    IF ampRange.display_max # None THEN Val(ampRange.display_max)
    ELSE IF ampRange.max # None /\ Val(ampRange.max) # 0 THEN Val(ampRange.max) ELSE 100

\* mutant: baseMin is not added
ClipMutantNoOffset(ampRange, quantile) ==
    ((BaseMax(ampRange) - BaseMin(ampRange)) * quantile) \div 100

\* baseMin + (range * quantile), the quantile in percent
Clip(ampRange, quantile) ==
    BaseMin(ampRange) + ((BaseMax(ampRange) - BaseMin(ampRange)) * quantile) \div 100

\* mutant: the two quantiles are taken for each other
QuantileEffectMutantSwapped(ampRange, minQ, maxQ, initialized) ==
    IF ~initialized
    THEN [vmin |-> Some(BaseMin(ampRange)), vmax |-> Some(BaseMax(ampRange))]
    ELSE [vmin |-> Some(Clip(ampRange, maxQ)), vmax |-> Some(Clip(ampRange, minQ))]

\* the effect's branch on amplitudeInitialized.current, lines 103-110
QuantileEffect(ampRange, minQ, maxQ, initialized) ==
    IF ~initialized
    THEN [vmin |-> Some(BaseMin(ampRange)), vmax |-> Some(BaseMax(ampRange))]
    ELSE [vmin |-> Some(Clip(ampRange, minQ)), vmax |-> Some(Clip(ampRange, maxQ))]

\* The render that follows an action, with the effect of lines 95-112.  The effect
\* runs when one of its dependencies changed; cubeChanged is TRUE when setCubeInfo
\* stored a new response object.  vminIn, vmaxIn and initIn are the values the
\* handler itself left.
RunQuantileEffect(cube, minQ, maxQ, cubeChanged, vminIn, vmaxIn, initIn) ==
    IF (cubeChanged \/ minQ # minQuantile \/ maxQ # maxQuantile) /\ cube # None
    THEN LET r == QuantileEffect(AmplitudeRangeOf(Val(cube)), minQ, maxQ, initIn)
         IN  /\ vmin' = r.vmin
             /\ vmax' = r.vmax
             /\ amplitudeInitialized' = TRUE
    ELSE /\ vmin' = vminIn
         /\ vmax' = vmaxIn
         /\ amplitudeInitialized' = initIn

\* minVal and maxVal of getAmplitudeRange(), lines 84-90 (min || 0 is 0 without a
\* min; max || 1 is 100 hundredths without a max or with a max of 0)
FallbackRange(ampRange) ==
    [min |-> IF ampRange.display_min # None THEN Val(ampRange.display_min)
             ELSE IF ampRange.actual_min # None THEN Val(ampRange.actual_min)
             ELSE IF ampRange.min # None THEN Val(ampRange.min) ELSE 0,
     max |-> IF ampRange.display_max # None THEN Val(ampRange.display_max)
             ELSE IF ampRange.actual_max # None THEN Val(ampRange.actual_max)
             ELSE IF ampRange.max # None /\ Val(ampRange.max) # 0
                  THEN Val(ampRange.max) ELSE 100]

\* getAmplitudeRange(), lines 75-93, on the state a render sees (min: 0, max: 1 is
\* 0 and 100 hundredths)
AmplitudeRange(cube, lo, hi) ==
    IF cube = None THEN [min |-> 0, max |-> 100]
    ELSE IF lo # None /\ hi # None THEN [min |-> Val(lo), max |-> Val(hi)]
    ELSE FallbackRange(AmplitudeRangeOf(Val(cube)))

getAmplitudeRange == AmplitudeRange(cubeInfo, vmin, vmax)

(***************************************************************************)
(* The compass: updateCompass, lines 275-286, and what the continuation of *)
(* Plotly.newPlot sets up for it, lines 408-438.                           *)
(***************************************************************************)
\* camera eyes: the initial eye of the layout (lines 365-368), the eyes on the
\* x and y axes, and an eye 0.057 degrees off the x axis
InitialEye == <<1600, 1600, 1400>>

Eyes == {InitialEye, <<1000, 0, 1400>>, <<0, 1000, 1400>>, <<1000, 1, 1400>>}

\* Math.atan2(y, x) * (180 / Math.PI), in thousandths of a degree, for the
\* directions of Eyes
Atan2Degrees(y, x) ==
    CASE y = 0 /\ x > 0 -> 0
      [] y = x /\ x > 0 -> 45000
      [] x = 0 /\ y > 0 -> 90000
      [] y = 1 /\ x = 1000 -> 57

\* the 45 of line 280
Offset == 45000

\* the 0.1 of line 432
Threshold == 100

Abs(n) == IF n < 0 THEN -n ELSE n

\* mutant: the azimuth is not negated
CompassAngleMutantNotNegated(eye) == Atan2Degrees(eye[2], eye[1]) + Offset

\* lines 279-280 (and 429-430): the compass angle for a camera eye
CompassAngle(eye) == -Atan2Degrees(eye[2], eye[1]) + Offset

\* updateCompass(), with the eye it finds in plotDiv's layout (None when plotDiv is
\* not rendered or holds no plot: the guards of lines 276 and 278)
updateCompass(eye, caller, arrival) ==
    IF eye # None
    THEN /\ compassRotation' = CompassAngle(Val(eye))
         /\ lastUpdate' = Some([by |-> caller, eye |-> Val(eye), arrival |-> arrival])
    ELSE UNCHANGED <<compassRotation, lastUpdate>>

\* clearInterval(pollIntervalRef.current), lines 421-423 and 757-759
ClearPoll ==
    IF pollIntervalRef # None /\ BagIn(Val(pollIntervalRef), pollIntervals)
    THEN pollIntervals (-) SetToBag({Val(pollIntervalRef)})
    ELSE pollIntervals

\* no plot was drawn yet
CompassUnplotted ==
    /\ compassRotation = 0
    /\ cameraEye = None
    /\ listeners = 0
    /\ pollIntervals = EmptyBag
    /\ pollIntervalRef = None
    /\ compassTimeouts = EmptyBag
    /\ mounted = TRUE
    /\ nMoves = 0
    /\ nNotifications = 0
    /\ reachedEye = None
    /\ lastUpdate = None

\* the first plot was drawn and the camera was not touched
CompassPlotted ==
    /\ compassRotation = CompassAngle(InitialEye)
    /\ cameraEye = Some(InitialEye)
    /\ listeners = 1
    /\ pollIntervals = SetToBag({0})
    /\ pollIntervalRef = Some(0)
    /\ compassTimeouts = EmptyBag
    /\ mounted = TRUE
    /\ nMoves = 0
    /\ nNotifications = 0
    /\ reachedEye = Some(InitialEye)
    /\ lastUpdate = Some([by |-> "plot", eye |-> InitialEye, arrival |-> None])

(***************************************************************************)
(* Initial state: the component as mounted.                                *)
(***************************************************************************)
NoSlices == [a \in Axes |-> None]

AllVisible == [a \in Axes |-> TRUE]

AppInit ==
    /\ files = <<>>
    /\ activeFileIndex = 0
    /\ cubeInfo = None
    /\ loading = FALSE
    /\ error = None
    /\ sliceIndices = [a \in Axes |-> 0]
    /\ pendingSliceIndices = [a \in Axes |-> 0]
    /\ sliceData = NoSlices
    /\ isLoadingSlice = FALSE
    /\ contextMenu = FALSE
    /\ minQuantile = DefaultMinQuantile
    /\ maxQuantile = DefaultMaxQuantile
    /\ vmin = None
    /\ vmax = None
    /\ amplitudeInitialized = FALSE
    /\ debounceTimer = None
    /\ sliceFetches = EmptyBag
    /\ uploads = <<>>
    /\ serverCube = None
    /\ burst = None
    /\ nChanges = 0
    /\ nUploads = 0
    /\ overwrote = FALSE
    /\ lastPreset = None
    /\ rangeBefore = None
    /\ sliceVisibility = AllVisible
    /\ plot = None
    /\ CompassUnplotted

\* the orientation resolver has not run
OrientationIdle ==
    /\ inlineVector = <<0, 0>>
    /\ xlineVector = <<0, 0>>
    /\ northArrow = None

\* no base range has been read
RangeIdle ==
    /\ amplitudeRange = AmplitudeRangeOf(Folder[1])
    /\ effectBase = None
    /\ fallbackRange = None

\* no slice builder has run
MeshIdle ==
    /\ matrix = <<>>
    /\ coordsX = <<>>
    /\ coordsY = <<>>
    /\ responseDefect = "none"
    /\ builder = "none"
    /\ normalized = <<>>
    /\ trace = [result |-> "null"]
    /\ scene = [threw |-> FALSE, traces |-> {}]

(***************************************************************************)
(* The plot: the effect on [create3DVisualization], lines 288-440, 748-750. *)
(***************************************************************************)
\* the dependency list of create3DVisualization (line 440), as far as the model
\* holds it: newObjects is TRUE when the action stored a new object in cubeInfo,
\* sliceData or sliceIndices, whatever its content
DependenciesChanged(newObjects) ==
    \/ newObjects
    \/ cubeInfo' # cubeInfo
    \/ sliceData' # sliceData
    \/ sliceVisibility' # sliceVisibility
    \/ sliceIndices' # sliceIndices
    \/ vmin' # vmin
    \/ vmax' # vmax

\* createCubeOutline(): one line trace per edge of the cube, each edge a pair of
\* vertex numbers (lines 459-463); no trace without cubeInfo (line 443)
CubeEdges == {<<0, 1>>, <<1, 2>>, <<2, 3>>, <<3, 0>>,
              <<4, 5>>, <<5, 6>>, <<6, 7>>, <<7, 4>>,
              <<0, 4>>, <<1, 5>>, <<2, 6>>, <<3, 7>>}

createCubeOutline(cube) == IF cube = None THEN {} ELSE CubeEdges

\* The render that follows an action and the effect that calls
\* create3DVisualization.  plotDiv is rendered when cubeInfo && !loading (line 841):
\* while it is not, there is no plot, and it comes back empty.  The effect runs when
\* a dependency changed; create3DVisualization returns early without slice data and
\* otherwise draws the outline and a trace for each visible axis that has data, with
\* cmin and cmax of getAmplitudeRange().
\* What create3DVisualization hands to Plotly.newPlot: the outline traces (line 296),
\* the colour bounds of the slice traces (cmin, cmax), the slices drawn (a slice is
\* drawn when it is visible and its data is stored, lines 299-312),
\* the index each create*Slice positions its surface at (sliceIndices, lines 485,
\* 569, 653) and the stored data it draws there (sliceData, lines 482, 566, 650).
Drawn(cube, lo, hi, indices, data, visibility) ==
    [outline  |-> createCubeOutline(cube),
     cmin     |-> AmplitudeRange(cube, lo, hi).min,
     cmax     |-> AmplitudeRange(cube, lo, hi).max,
     slices   |-> { a \in Axes : visibility[a] /\ data[a] # None },
     position |-> indices,
     data     |-> data]

\* Plotly.newPlot is called: the early return of line 289 is not taken and plotDiv
\* is rendered (line 390)
Replotted(newObjects) ==
    /\ cubeInfo' # None
    /\ ~loading'
    /\ DependenciesChanged(newObjects)
    /\ sliceData' # NoSlices

\* The compass after a render.  When Plotly.newPlot is called: the camera of the
\* plot that plotDiv holds is kept (lines 385-387), a new plotDiv gets the layout's
\* eye; Plotly.newPlot drops the listeners of the plot it replaces and the
\* continuation (lines 408-438) calls updateCompass, registers one listener per
\* event, clears the interval pollIntervalRef names and starts one whose callback
\* closes over the compassRotation of this render (compassRotation is not a
\* dependency of create3DVisualization, line 440).  When plotDiv goes, its plot,
\* camera and listeners go with it; the interval stays.
RenderCompass(newObjects) ==
    /\ IF Replotted(newObjects)
       THEN /\ cameraEye' = (IF cameraEye # None THEN cameraEye ELSE Some(InitialEye))
            /\ listeners' = 1
            /\ pollIntervals' = ClearPoll (+) SetToBag({compassRotation})
            /\ pollIntervalRef' = Some(compassRotation)
            /\ updateCompass(cameraEye', "plot", None)
       ELSE /\ cameraEye' = (IF cubeInfo' = None \/ loading' THEN None ELSE cameraEye)
            /\ listeners' = (IF cubeInfo' = None \/ loading' THEN 0 ELSE listeners)
            /\ UNCHANGED <<pollIntervals, pollIntervalRef, compassRotation, lastUpdate>>
    /\ reachedEye' = (IF cameraEye' # None THEN cameraEye' ELSE reachedEye)
    /\ UNCHANGED <<compassTimeouts, mounted, nMoves, nNotifications>>

RenderPlot(newObjects) ==
    /\ plot' = IF cubeInfo' = None \/ loading'
               THEN None
               ELSE IF Replotted(newObjects)
               THEN Some(Drawn(cubeInfo', vmin', vmax', sliceIndices', sliceData',
                               sliceVisibility'))
               ELSE IF cubeInfo # None /\ ~loading THEN plot ELSE None
    /\ RenderCompass(newObjects)

(***************************************************************************)
(* Uploads: handleFileUpload, handleFileSwitch and loadSliceData.          *)
(***************************************************************************)
RemoveAt(s, k) == [i \in 1..(Len(s) - 1) |-> IF i < k THEN s[i] ELSE s[i + 1]]

\* the synchronous part of both handlers from setLoading(true) to the POST
StartUpload(ds) ==
    /\ loading' = TRUE
    /\ error' = None
    /\ amplitudeInitialized' = FALSE
    /\ vmin' = None
    /\ vmax' = None
    /\ uploads' = Append(uploads, [file |-> ds, stage |-> "upload", newSliceData |-> NoSlices])
    /\ burst' = None
    /\ nUploads' = nUploads + 1
    /\ lastPreset' = None
    /\ rangeBefore' = (IF cubeInfo # None
                    THEN Some(AmplitudeRange(cubeInfo, vmin, vmax)) ELSE None)
    /\ UNCHANGED <<nChanges, sliceVisibility>>

\* handleFileUpload(event): the user selects the folder
handleFileUpload ==
    /\ nUploads < MaxUploads
    /\ files' = Folder
    /\ activeFileIndex' = 0
    /\ StartUpload(Folder[1])
    /\ UNCHANGED <<cubeInfo, sliceIndices, pendingSliceIndices, sliceData, isLoadingSlice,
                   contextMenu, minQuantile, maxQuantile, debounceTimer, sliceFetches,
                   serverCube, overwrote, meshVars>>
    /\ RenderPlot(FALSE)

\* handleFileSwitch(fileIndex), without the click handler around it
handleFileSwitch(fileIndex) ==
    IF fileIndex = activeFileIndex \/ fileIndex >= Len(files)
    THEN UNCHANGED <<files, activeFileIndex, cubeInfo, loading, error, sliceIndices,
                     pendingSliceIndices, sliceData, isLoadingSlice, minQuantile,
                     maxQuantile, vmin, vmax, amplitudeInitialized, debounceTimer,
                     sliceFetches, uploads, serverCube, burst, nChanges, nUploads,
                     overwrote, lastPreset, rangeBefore, sliceVisibility>>
    ELSE /\ activeFileIndex' = fileIndex
         /\ StartUpload(files[fileIndex + 1])
         /\ UNCHANGED <<files, cubeInfo, sliceIndices, pendingSliceIndices, sliceData,
                        isLoadingSlice, minQuantile, maxQuantile, debounceTimer,
                        sliceFetches, serverCube, overwrote>>

\* onContextMenu on the plot: the plot is rendered when cubeInfo && !loading
OpenContextMenu ==
    /\ cubeInfo # None
    /\ ~loading
    /\ ~contextMenu
    /\ contextMenu' = TRUE
    /\ UNCHANGED <<files, activeFileIndex, cubeInfo, loading, error, sliceIndices,
                   pendingSliceIndices, sliceData, isLoadingSlice, minQuantile,
                   maxQuantile, vmin, vmax, amplitudeInitialized, debounceTimer,
                   sliceFetches, uploads, serverCube, burst, nChanges, nUploads,
                   overwrote, lastPreset, meshVars>>
    /\ UNCHANGED <<rangeBefore, sliceVisibility>>
    /\ RenderPlot(FALSE)

\* onClick of a file of the context menu's list (lines 1422-1426)
FileMenuClick(fileIndex) ==
    /\ contextMenu
    /\ fileIndex \in 0..(Len(files) - 1)
    /\ nUploads < MaxUploads
    /\ handleFileSwitch(fileIndex)
    /\ contextMenu' = FALSE
    /\ UNCHANGED meshVars
    /\ RenderPlot(FALSE)

\* the POST /api/upload of upload k answers 2xx: lines 141-157 (250-266) up to the
\* first await of loadSliceData, then the render and the quantile effect
UploadSucceeds(k) ==
    LET ds == uploads[k].file IN
    /\ uploads[k].stage = "upload"
    /\ serverCube' = Some(ds)
    /\ cubeInfo' = Some(ds)
    /\ sliceIndices' = MiddleIndices(ds)
    /\ pendingSliceIndices' = MiddleIndices(ds)
    /\ isLoadingSlice' = TRUE
    /\ uploads' = [uploads EXCEPT ![k].stage = AxisOrder[1], ![k].newSliceData = NoSlices]
    /\ RunQuantileEffect(Some(ds), minQuantile, maxQuantile, TRUE,
                         vmin, vmax, amplitudeInitialized)
    /\ burst' = None
    /\ lastPreset' = None
    /\ UNCHANGED <<files, activeFileIndex, loading, error, sliceData, contextMenu,
                   minQuantile, maxQuantile, debounceTimer, sliceFetches, nChanges,
                   nUploads, overwrote, meshVars>>
    /\ rangeBefore' = None
    /\ UNCHANGED sliceVisibility
    /\ RenderPlot(TRUE)

\* mutant: the handler has no finally, loading stays as it is
UploadFailsMutantNoFinally(k) ==
    /\ uploads[k].stage = "upload"
    /\ error' = Some("Upload failed")
    /\ uploads' = RemoveAt(uploads, k)
    /\ burst' = None
    /\ UNCHANGED <<files, activeFileIndex, cubeInfo, loading, sliceIndices,
                   pendingSliceIndices, sliceData, isLoadingSlice, contextMenu,
                   minQuantile, maxQuantile, vmin, vmax, amplitudeInitialized,
                   debounceTimer, sliceFetches, serverCube, nChanges, nUploads,
                   overwrote, lastPreset, meshVars>>
    /\ UNCHANGED <<rangeBefore, sliceVisibility>>
    /\ RenderPlot(FALSE)

\* the POST fails (non-2xx, or fetch rejects): catch and finally of the handler
UploadFails(k) ==
    /\ uploads[k].stage = "upload"
    /\ error' = Some("Upload failed")
    /\ loading' = FALSE
    /\ uploads' = RemoveAt(uploads, k)
    /\ burst' = None
    /\ UNCHANGED <<files, activeFileIndex, cubeInfo, sliceIndices, pendingSliceIndices,
                   sliceData, isLoadingSlice, contextMenu, minQuantile, maxQuantile,
                   vmin, vmax, amplitudeInitialized, debounceTimer, sliceFetches,
                   serverCube, nChanges, nUploads, overwrote, lastPreset, meshVars>>
    /\ UNCHANGED <<rangeBefore, sliceVisibility>>
    /\ RenderPlot(FALSE)

\* loadSliceData after the answer to the fetch of axis uploads[k].stage:
\* stored says whether newSliceData[sliceType] was assigned (response.ok)
LoadSliceDataStep(k, stored) ==
    LET task == uploads[k]
        sliceType == task.stage
        index == MiddleIndices(task.file)[sliceType]
        newSliceData == IF stored
                        THEN [task.newSliceData EXCEPT
                                ![sliceType] = Some(SliceOf(Val(serverCube), sliceType, index))]
                        ELSE task.newSliceData
    IN  IF sliceType = AxisOrder[Len(AxisOrder)]
        THEN /\ sliceData' = newSliceData
             /\ isLoadingSlice' = FALSE
             /\ loading' = FALSE
             /\ uploads' = RemoveAt(uploads, k)
        ELSE /\ uploads' = [uploads EXCEPT
                              ![k].stage = AxisOrder[Dim(sliceType) + 1],
                              ![k].newSliceData = newSliceData]
             /\ UNCHANGED <<sliceData, isLoadingSlice, loading>>

\* a slice fetch of loadSliceData answers 2xx
LoadSliceOk(k) ==
    /\ uploads[k].stage \in Axes
    /\ Servable(uploads[k].stage, MiddleIndices(uploads[k].file)[uploads[k].stage])
    /\ LoadSliceDataStep(k, TRUE)
    /\ burst' = None
    /\ UNCHANGED <<files, activeFileIndex, cubeInfo, error, sliceIndices,
                   pendingSliceIndices, contextMenu, minQuantile, maxQuantile, vmin, vmax,
                   amplitudeInitialized, debounceTimer, sliceFetches, serverCube,
                   nChanges, nUploads, overwrote, lastPreset, meshVars>>
    /\ UNCHANGED <<rangeBefore, sliceVisibility>>
    /\ RenderPlot(uploads[k].stage = AxisOrder[Len(AxisOrder)])

\* a slice fetch of loadSliceData answers non-2xx: the axis is skipped
LoadSliceNotOk(k) ==
    /\ uploads[k].stage \in Axes
    /\ LoadSliceDataStep(k, FALSE)
    /\ burst' = None
    /\ UNCHANGED <<files, activeFileIndex, cubeInfo, error, sliceIndices,
                   pendingSliceIndices, contextMenu, minQuantile, maxQuantile, vmin, vmax,
                   amplitudeInitialized, debounceTimer, sliceFetches, serverCube,
                   nChanges, nUploads, overwrote, lastPreset, meshVars>>
    /\ UNCHANGED <<rangeBefore, sliceVisibility>>
    /\ RenderPlot(uploads[k].stage = AxisOrder[Len(AxisOrder)])

\* a slice fetch of loadSliceData rejects: catch and finally of loadSliceData
\* (lines 179-183), then finally of the upload handler
LoadSliceThrows(k) ==
    /\ uploads[k].stage \in Axes
    /\ isLoadingSlice' = FALSE
    /\ loading' = FALSE
    /\ uploads' = RemoveAt(uploads, k)
    /\ burst' = None
    /\ UNCHANGED <<files, activeFileIndex, cubeInfo, error, sliceIndices,
                   pendingSliceIndices, sliceData, contextMenu, minQuantile, maxQuantile,
                   vmin, vmax, amplitudeInitialized, debounceTimer, sliceFetches,
                   serverCube, nChanges, nUploads, overwrote, lastPreset, meshVars>>
    /\ UNCHANGED <<rangeBefore, sliceVisibility>>
    /\ RenderPlot(FALSE)

(***************************************************************************)
(* SliceUpdateScheduler: handleSliceChange and its debounce callback.      *)
(***************************************************************************)
\* History of the run of slider changes in progress: a run is a sequence of changes
\* of one axis, each made while the timer of the one before is pending.  commits
\* and fetches list what debounce callbacks committed and fetched since it began.
\* Any event of another kind ends the run.
NextBurst(sliceType, index) ==
    IF burst # None /\ debounceTimer # None /\ Val(burst).sliceType = sliceType
    THEN Some([Val(burst) EXCEPT !.n = @ + 1, !.last = index])
    ELSE Some([sliceType |-> sliceType, n |-> 1, last |-> index,
               commits |-> <<>>, fetches |-> <<>>])

\* mutant: the pending timer is kept and the new value dropped (no clearTimeout)
RestartTimerMutantKeepFirst(sliceType, index) ==
    IF debounceTimer # None
    THEN debounceTimer
    ELSE Some([sliceType |-> sliceType, index |-> index])

\* clearTimeout(debounceTimerRef.current); debounceTimerRef.current = setTimeout(...)
RestartTimer(sliceType, index) == Some([sliceType |-> sliceType, index |-> index])

\* mutant: the change is committed at once, as well as debounced
handleSliceChangeMutantEager(sliceType, index) ==
    /\ cubeInfo # None
    /\ ~loading
    /\ index \in 0..(Shape(Val(cubeInfo))[Dim(sliceType)] - 1)
    /\ index # pendingSliceIndices[sliceType]
    /\ nChanges < MaxChanges
    /\ nChanges' = nChanges + 1
    /\ pendingSliceIndices' = [pendingSliceIndices EXCEPT ![sliceType] = index]
    /\ sliceIndices' = [sliceIndices EXCEPT ![sliceType] = index]
    /\ debounceTimer' = RestartTimer(sliceType, index)
    /\ burst' = NextBurst(sliceType, index)
    /\ UNCHANGED <<files, activeFileIndex, cubeInfo, loading, error, sliceData,
                   isLoadingSlice, contextMenu, minQuantile, maxQuantile, vmin, vmax,
                   amplitudeInitialized, sliceFetches, uploads, serverCube, nUploads,
                   overwrote, lastPreset, meshVars>>
    /\ UNCHANGED <<rangeBefore, sliceVisibility>>
    /\ RenderPlot(FALSE)

\* the slider's onChange: handleSliceChange(sliceType, index), lines 186-217.
\* The sliders are rendered when cubeInfo && !loading, with max = shape[d] - 1.
handleSliceChange(sliceType, index) ==
    /\ cubeInfo # None
    /\ ~loading
    /\ index \in 0..(Shape(Val(cubeInfo))[Dim(sliceType)] - 1)
    /\ index # pendingSliceIndices[sliceType]
    /\ nChanges < MaxChanges
    /\ nChanges' = nChanges + 1
    /\ UNCHANGED nUploads
    /\ pendingSliceIndices' = [pendingSliceIndices EXCEPT ![sliceType] = index]
    /\ debounceTimer' = RestartTimer(sliceType, index)
    /\ burst' = NextBurst(sliceType, index)
    /\ UNCHANGED <<files, activeFileIndex, cubeInfo, loading, error, sliceIndices,
                   sliceData, isLoadingSlice, contextMenu, minQuantile, maxQuantile,
                   vmin, vmax, amplitudeInitialized, sliceFetches, uploads, serverCube,
                   overwrote, lastPreset, meshVars>>
    /\ UNCHANGED <<rangeBefore, sliceVisibility>>
    /\ RenderPlot(FALSE)

\* what the callback commits: setSliceIndices(prev => ({...prev, [sliceType]: index}))
Commit(indices, timer) == [indices EXCEPT ![timer.sliceType] = timer.index]

\* the timer fires 150 ms after the last handleSliceChange: the callback of lines
\* 198-216 up to its await
DebounceFires ==
    /\ debounceTimer # None
    /\ LET timer == Val(debounceTimer) IN
        /\ sliceIndices' = Commit(sliceIndices, timer)
        /\ sliceFetches' = sliceFetches (+) SetToBag({timer})
        /\ burst' = IF burst = None THEN None
                    ELSE Some([Val(burst) EXCEPT !.commits = Append(@, timer),
                                                 !.fetches = Append(@, timer)])
    /\ debounceTimer' = None
    /\ UNCHANGED <<files, activeFileIndex, cubeInfo, loading, error, pendingSliceIndices,
                   sliceData, isLoadingSlice, contextMenu, minQuantile, maxQuantile,
                   vmin, vmax, amplitudeInitialized, uploads, serverCube, nChanges,
                   nUploads, overwrote, lastPreset, meshVars>>
    /\ UNCHANGED <<rangeBefore, sliceVisibility>>
    /\ RenderPlot(TRUE)

\* mutant: the answer is stored only if it is for the committed index
StoreMutantGuarded(data, request, response) ==
    IF request.index = sliceIndices[request.sliceType]
    THEN [data EXCEPT ![request.sliceType] = Some(response)]
    ELSE data

\* what the callback stores on a 2xx answer: setSliceData(prev => ({...prev, ...}))
Store(data, request, response) == [data EXCEPT ![request.sliceType] = Some(response)]

\* the fetch of a debounce callback answers 2xx
SliceFetchOk(request) ==
    /\ request \in BagToSet(sliceFetches)
    /\ Servable(request.sliceType, request.index)
    /\ sliceData' = Store(sliceData, request,
                          SliceOf(Val(serverCube), request.sliceType, request.index))
    /\ sliceFetches' = sliceFetches (-) SetToBag({request})
    /\ overwrote' = (\/ overwrote
                     \/ /\ sliceData[request.sliceType] # None
                        /\ Val(sliceData[request.sliceType]).index = sliceIndices[request.sliceType]
                        /\ request.index # sliceIndices[request.sliceType])
    /\ UNCHANGED <<files, activeFileIndex, cubeInfo, loading, error, sliceIndices,
                   pendingSliceIndices, isLoadingSlice, contextMenu, minQuantile,
                   maxQuantile, vmin, vmax, amplitudeInitialized, debounceTimer, uploads,
                   serverCube, burst, nChanges, nUploads, lastPreset, meshVars>>
    /\ UNCHANGED <<rangeBefore, sliceVisibility>>
    /\ RenderPlot(TRUE)

\* the fetch of a debounce callback answers non-2xx or rejects: nothing is stored
SliceFetchFails(request) ==
    /\ request \in BagToSet(sliceFetches)
    /\ sliceFetches' = sliceFetches (-) SetToBag({request})
    /\ UNCHANGED <<files, activeFileIndex, cubeInfo, loading, error, sliceIndices,
                   pendingSliceIndices, sliceData, isLoadingSlice, contextMenu,
                   minQuantile, maxQuantile, vmin, vmax, amplitudeInitialized,
                   debounceTimer, uploads, serverCube, burst, nChanges, nUploads,
                   overwrote, lastPreset, meshVars>>
    /\ UNCHANGED <<rangeBefore, sliceVisibility>>
    /\ RenderPlot(FALSE)

(***************************************************************************)
(* Quantile inputs and Quick Presets.                                      *)
(***************************************************************************)
\* the quantile panel is part of the control panel: rendered when
\* cubeInfo && !loading (line 841) and cubeInfo.amplitude_range (line 938)
QuantilePanelShown == cubeInfo # None /\ ~loading

\* onChange of a Min Quantile input: setMinQuantile(q), then render and effect
ChangeMinQuantile(q) ==
    /\ QuantilePanelShown
    /\ q # minQuantile
    /\ minQuantile' = q
    /\ RunQuantileEffect(cubeInfo, q, maxQuantile, FALSE, vmin, vmax, amplitudeInitialized)
    /\ burst' = None
    /\ lastPreset' = None
    /\ UNCHANGED <<files, activeFileIndex, cubeInfo, loading, error, sliceIndices,
                   pendingSliceIndices, sliceData, isLoadingSlice, contextMenu,
                   maxQuantile, debounceTimer, sliceFetches, uploads, serverCube,
                   nChanges, nUploads, overwrote, meshVars>>
    /\ UNCHANGED <<rangeBefore, sliceVisibility>>
    /\ RenderPlot(FALSE)

\* onChange of a Max Quantile input: setMaxQuantile(q), then render and effect
ChangeMaxQuantile(q) ==
    /\ QuantilePanelShown
    /\ q # maxQuantile
    /\ maxQuantile' = q
    /\ RunQuantileEffect(cubeInfo, minQuantile, q, FALSE, vmin, vmax, amplitudeInitialized)
    /\ burst' = None
    /\ lastPreset' = None
    /\ UNCHANGED <<files, activeFileIndex, cubeInfo, loading, error, sliceIndices,
                   pendingSliceIndices, sliceData, isLoadingSlice, contextMenu,
                   minQuantile, debounceTimer, sliceFetches, uploads, serverCube,
                   nChanges, nUploads, overwrote, meshVars>>
    /\ UNCHANGED <<rangeBefore, sliceVisibility>>
    /\ RenderPlot(FALSE)

\* onClick of a Quick Presets button (lines 1051-1108): both setters, one render
SelectPreset(preset) ==
    /\ QuantilePanelShown
    /\ minQuantile' = preset.min
    /\ maxQuantile' = preset.max
    /\ RunQuantileEffect(cubeInfo, preset.min, preset.max, FALSE,
                         vmin, vmax, amplitudeInitialized)
    /\ burst' = None
    /\ lastPreset' = Some([preset |-> preset,
                           baselineSet |-> amplitudeInitialized /\ vmin # None])
    /\ UNCHANGED <<files, activeFileIndex, cubeInfo, loading, error, sliceIndices,
                   pendingSliceIndices, sliceData, isLoadingSlice, contextMenu,
                   debounceTimer, sliceFetches, uploads, serverCube, nChanges, nUploads,
                   overwrote, meshVars>>
    /\ UNCHANGED <<rangeBefore, sliceVisibility>>
    /\ RenderPlot(FALSE)

(***************************************************************************)
(* The viewer.                                                             *)
(***************************************************************************)
UploadStarts ==
    \/ handleFileUpload
    \/ OpenContextMenu
    \/ \E fileIndex \in 0..(Len(Folder) - 1) : FileMenuClick(fileIndex)

UploadAnswers ==
    \/ \E k \in 1..Len(uploads) : UploadSucceeds(k)
    \/ \E k \in 1..Len(uploads) : UploadFails(k)
    \/ \E k \in 1..Len(uploads) : LoadSliceOk(k)
    \/ \E k \in 1..Len(uploads) : LoadSliceNotOk(k)
    \/ \E k \in 1..Len(uploads) : LoadSliceThrows(k)

SchedulerNext ==
    \/ \E sliceType \in Axes, index \in Indices : handleSliceChange(sliceType, index)
    \/ DebounceFires
    \/ \E request \in BagToSet(sliceFetches) : SliceFetchOk(request)
    \/ \E request \in BagToSet(sliceFetches) : SliceFetchFails(request)

QuantileNext ==
    \/ \E q \in MinQuantileInputs : ChangeMinQuantile(q)
    \/ \E q \in MaxQuantileInputs : ChangeMaxQuantile(q)
    \/ \E preset \in Presets : SelectPreset(preset)

Init == AppInit /\ MeshIdle /\ OrientationIdle /\ RangeIdle

\* The viewer with its sliders: the user starts an upload when none is in flight and
\* leaves the quantile panel alone.
Next ==
    \/ uploads = <<>> /\ handleFileUpload
    \/ uploads = <<>> /\ OpenContextMenu
    \/ \E fileIndex \in 0..(Len(Folder) - 1) : uploads = <<>> /\ FileMenuClick(fileIndex)
    \/ UploadAnswers
    \/ SchedulerNext

Spec == Init /\ [][Next]_vars

\* The viewer with its quantile panel: uploads may overlap, the sliders are left
\* alone.
AmplitudeNext ==
    \/ UploadStarts
    \/ UploadAnswers
    \/ QuantileNext

AmplitudeSpec == Init /\ [][AmplitudeNext]_vars

(***************************************************************************)
(* CoordinateNormalizer and SliceMeshBuilder: the three slice builders,    *)
(* applied to a stored slice response.                                     *)
(*                                                                         *)
(* A cell of data and an element of a coordinate array are Some(number) or *)
(* None (null in the JSON, undefined past the end of an array).  Cell      *)
(* amplitudes are in thousandths, so that the sentinel -0.999 is -999.     *)
(***************************************************************************)
\* amplitudes of the cells of a response
Cells == {0, 5}

\* the rectangular matrices of up to MaxDim rows and MaxDim columns
Matrices ==
    UNION { [1..rows -> [1..cols -> { Some(c) : c \in Cells }]] :
                rows \in 1..MaxDim, cols \in 1..MaxDim }

\* rectangular matrices some cells of which are null
MatricesWithNulls ==
    UNION { [1..rows -> [1..cols -> {None, Some(5)}]] :
                rows \in 1..MaxDim, cols \in 1..MaxDim }

\* matrices whose rows have unequal lengths: one row lacks its last cell
RaggedMatrices ==
    { [m EXCEPT ![r] = SubSeq(m[r], 1, Len(m[r]) - 1)] :
          m \in [1..MaxDim -> [1..MaxDim -> {Some(5)}]], r \in 1..MaxDim }

\* a coordinate array of n consecutive line numbers
CoordArray(n) == [k \in 1..n |-> Some(k)]

CoordArrays == { CoordArray(n) : n \in 1..MaxDim }

\* coordinate arrays one element of which is null
CoordArraysWithNull ==
    UNION { { [CoordArray(n) EXCEPT ![k] = None] : k \in 1..n } : n \in 1..MaxDim }

\* what a response can lack: nothing, data, coordinates, coordinates.x,
\* coordinates.y, or the second dimension of data (data is an array of numbers)
Defects == {"none", "data", "coordinates", "x", "y", "flat"}

\* mutant: the matrix is left as it is
TransposeMutantIdentity(m) == m

\* mutant: the matrix is turned by a quarter instead of transposed
TransposeMutantRotate(m) ==
    [colIndex \in 1..Len(m[1]) |->
        [row \in 1..Len(m) |->
            IF colIndex <= Len(m[Len(m) + 1 - row])
            THEN m[Len(m) + 1 - row][colIndex] ELSE None]]

\* sliceMatrix[0].map((_, colIndex) => sliceMatrix.map(row => row[colIndex]));
\* row[colIndex] is undefined past the end of a row
Transpose(m) ==
    [colIndex \in 1..Len(m[1]) |->
        [row \in 1..Len(m) |->
            IF colIndex <= Len(m[row]) THEN m[row][colIndex] ELSE None]]

\* createInlineSlice, lines 493-498: xlineCoords = coordinates.x,
\* sampleCoords = coordinates.y
InlineSliceMatrix(data, x, y) ==
    IF Len(data) = Len(x) /\ Len(data[1]) = Len(y) THEN Transpose(data) ELSE data

\* createXlineSlice, lines 577-582: inlineCoords = coordinates.x,
\* sampleCoords = coordinates.y
XlineSliceMatrix(data, x, y) ==
    IF Len(data) = Len(x) /\ Len(data[1]) = Len(y) THEN Transpose(data) ELSE data

\* mutant: the sample builder tests for the orientation the other two test for
SampleSliceMatrixMutantAsInline(data, x, y) ==
    IF Len(data) = Len(x) /\ Len(data[1]) = Len(y) THEN Transpose(data) ELSE data

\* createSampleSlice, lines 663-668: inlineCoords = coordinates.x,
\* xlineCoords = coordinates.y
SampleSliceMatrix(data, x, y) ==
    IF Len(data) = Len(y) /\ Len(data[1]) = Len(x) THEN Transpose(data) ELSE data

\* let amplitude = -0.999, in thousandths
Sentinel == -999

\* the quotient 0 / 0
NaN == <<0, 0>>

\* cube_info.inline_range, xline_range and sample_range: {min, max, count}; the
\* samples are 4 ms apart
AxisRangeOf(ds, sliceType) ==
    LET count == Shape(ds)[Dim(sliceType)]
    IN  CASE sliceType = "inline" -> [min |-> 100, max |-> 100 + count - 1, count |-> count]
          [] sliceType = "xline"  -> [min |-> 200, max |-> 200 + count - 1, count |-> count]
          [] sliceType = "sample" -> [min |-> 0, max |-> 4 * (count - 1), count |-> count]

\* cubeInfo.inline_range.min + sliceIndices.inline (and the same for xline)
LineVal(range, index) == Some(range.min + index)

\* cubeInfo.sample_range.min + sliceIndices.sample * (max - min) / (count - 1)
SampleVal(range, index) ==
    IF range.count - 1 = 0
    THEN NaN
    ELSE Some(range.min + (index * (range.max - range.min)) \div (range.count - 1))

\* mutant: a missing cell is read as amplitude 0
AmplitudeMutantZero(sliceMatrix, i, j) ==
    IF i <= Len(sliceMatrix) /\ j <= Len(sliceMatrix[i]) /\ sliceMatrix[i][j] # None
    THEN Val(sliceMatrix[i][j])
    ELSE 0

\* let amplitude = -0.999; if (sliceMatrix[i] && sliceMatrix[i][j] !== undefined &&
\* sliceMatrix[i][j] !== null) amplitude = Number(sliceMatrix[i][j]);
Amplitude(sliceMatrix, i, j) ==
    IF i <= Len(sliceMatrix) /\ j <= Len(sliceMatrix[i]) /\ sliceMatrix[i][j] # None
    THEN Val(sliceMatrix[i][j])
    ELSE Sentinel

\* the builder returns null
NoTrace == [result |-> "null"]

\* the builder throws a TypeError
Throws == [result |-> "throws"]

\* mutant: a response without data or coordinates is built all the same
ReturnsNullMutantNever(defect, data) == FALSE

\* lines 483 and 488: if (!data || !cubeInfo || !data.data || !data.coordinates)
\* return null; if (!Array.isArray(sliceMatrix[0])) return null;
ReturnsNull(defect, data) ==
    \/ cubeInfo = None
    \/ defect \in {"data", "coordinates"}
    \/ defect = "flat"
    \/ Len(data) = 0

\* the object a builder returns: the hover text has a cell for each cell of the
\* three meshes, surfacecolor is the matrix as normalised
Trace(sliceMatrix, xMesh, yMesh, zMesh, ampRange) ==
    [result       |-> "trace",
     x            |-> xMesh,
     y            |-> yMesh,
     z            |-> zMesh,
     surfacecolor |-> sliceMatrix,
     text         |-> [i \in 1..Len(xMesh) |->
                         [j \in 1..Len(xMesh[i]) |->
                             [x |-> xMesh[i][j], y |-> yMesh[i][j], z |-> zMesh[i][j],
                              amplitude |-> Amplitude(sliceMatrix, i, j)]]],
     cmin         |-> ampRange.min,
     cmax         |-> ampRange.max]

\* sampleCoords[i].toFixed(2) in the hover string throws on a null element (the
\* inner loop runs when the other array has an element)
ToFixedThrows(sampleCoords, otherCoords) ==
    /\ Len(otherCoords) > 0
    /\ \E i \in 1..Len(sampleCoords) : sampleCoords[i] = None

\* createInlineSlice(ampRange), lines 481-563
InlineSliceTrace(defect, data, x, y, ampRange) ==
    IF ReturnsNull(defect, data) THEN NoTrace
    ELSE IF defect \in {"x", "y"} THEN Throws
    ELSE IF ToFixedThrows(y, x) THEN Throws
    ELSE LET inlineVal == LineVal(AxisRangeOf(Val(cubeInfo), "inline"), sliceIndices.inline)
             xMesh == [i \in 1..Len(y) |-> [j \in 1..Len(x) |-> x[j]]]
             yMesh == [i \in 1..Len(y) |-> [j \in 1..Len(x) |-> inlineVal]]
             zMesh == [i \in 1..Len(y) |-> [j \in 1..Len(x) |-> y[i]]]
         IN  Trace(InlineSliceMatrix(data, x, y), xMesh, yMesh, zMesh, ampRange)

\* createXlineSlice(ampRange), lines 565-647
XlineSliceTrace(defect, data, x, y, ampRange) ==
    IF ReturnsNull(defect, data) THEN NoTrace
    ELSE IF defect \in {"x", "y"} THEN Throws
    ELSE IF ToFixedThrows(y, x) THEN Throws
    ELSE LET xlineVal == LineVal(AxisRangeOf(Val(cubeInfo), "xline"), sliceIndices.xline)
             xMesh == [i \in 1..Len(y) |-> [j \in 1..Len(x) |-> xlineVal]]
             yMesh == [i \in 1..Len(y) |-> [j \in 1..Len(x) |-> x[j]]]
             zMesh == [i \in 1..Len(y) |-> [j \in 1..Len(x) |-> y[i]]]
         IN  Trace(XlineSliceMatrix(data, x, y), xMesh, yMesh, zMesh, ampRange)

\* createSampleSlice(ampRange), lines 649-746: its rows follow coordinates.x
SampleSliceTrace(defect, data, x, y, ampRange) ==
    IF ReturnsNull(defect, data) THEN NoTrace
    ELSE IF defect \in {"x", "y"} THEN Throws
    ELSE LET sampleVal == SampleVal(AxisRangeOf(Val(cubeInfo), "sample"), sliceIndices.sample)
             xMesh == [i \in 1..Len(x) |-> [j \in 1..Len(y) |-> y[j]]]
             yMesh == [i \in 1..Len(x) |-> [j \in 1..Len(y) |-> x[i]]]
             zMesh == [i \in 1..Len(x) |-> [j \in 1..Len(y) |-> sampleVal]]
         IN  Trace(SampleSliceMatrix(data, x, y), xMesh, yMesh, zMesh, ampRange)

\* the builder of an axis on a response
BuilderTrace(sliceType, defect, data, x, y) ==
    CASE sliceType = "inline" -> InlineSliceTrace(defect, data, x, y, getAmplitudeRange)
      [] sliceType = "xline"  -> XlineSliceTrace(defect, data, x, y, getAmplitudeRange)
      [] sliceType = "sample" -> SampleSliceTrace(defect, data, x, y, getAmplitudeRange)

\* a response with nothing wrong: one cell, one element in each coordinate array
ValidResponse == [data |-> <<<<Some(5)>>>>, x |-> CoordArray(1), y |-> CoordArray(1)]

\* create3DVisualization(), lines 288-312 and 390: the traces handed to
\* Plotly.newPlot, or the exception that escapes.  tested is the axis whose stored
\* response is the one under test; the other two axes hold ValidResponse and all
\* three are visible.
Scene(tested, defect, data, x, y) ==
    LET traceOf(a) == IF a = tested
                      THEN BuilderTrace(a, defect, data, x, y)
                      ELSE BuilderTrace(a, "none", ValidResponse.data,
                                        ValidResponse.x, ValidResponse.y)
    IN  IF \E a \in Axes : traceOf(a).result = "throws"
        THEN [threw |-> TRUE, traces |-> {}]
        ELSE [threw |-> FALSE,
              traces |-> {"outline"} \cup { a \in Axes : traceOf(a).result = "trace" }]

\* a stored slice response, before a builder runs on it
MeshResponse ==
    /\ \/ /\ matrix \in Matrices \cup MatricesWithNulls \cup RaggedMatrices
          /\ coordsX \in CoordArrays
          /\ coordsY \in CoordArrays
          /\ responseDefect = "none"
       \/ /\ matrix = ValidResponse.data
          /\ coordsX \in CoordArrays \cup CoordArraysWithNull
          /\ coordsY \in CoordArrays \cup CoordArraysWithNull
          /\ responseDefect = "none"
       \/ /\ matrix \in {<<>>, ValidResponse.data}
          /\ coordsX = CoordArray(1)
          /\ coordsY = CoordArray(1)
          /\ responseDefect \in Defects
    /\ builder = "none"
    /\ normalized = <<>>
    /\ trace = NoTrace
    /\ scene = [threw |-> FALSE, traces |-> {}]

\* what the builder of an axis leaves: the matrix it uses after normalisation
NormalizedBy(sliceType) ==
    IF ReturnsNull(responseDefect, matrix) \/ responseDefect \in {"x", "y"} THEN <<>>
    ELSE CASE sliceType = "inline" -> InlineSliceMatrix(matrix, coordsX, coordsY)
           [] sliceType = "xline"  -> XlineSliceMatrix(matrix, coordsX, coordsY)
           [] sliceType = "sample" -> SampleSliceMatrix(matrix, coordsX, coordsY)

\* create3DVisualization with the response stored for the inline axis
createInlineSlice ==
    /\ builder = "none"
    /\ builder' = "inline"
    /\ normalized' = NormalizedBy("inline")
    /\ trace' = BuilderTrace("inline", responseDefect, matrix, coordsX, coordsY)
    /\ scene' = Scene("inline", responseDefect, matrix, coordsX, coordsY)
    /\ UNCHANGED <<matrix, coordsX, coordsY, responseDefect, orientationVars, rangeVars,
                   appVars, compassVars>>

\* create3DVisualization with the response stored for the xline axis
createXlineSlice ==
    /\ builder = "none"
    /\ builder' = "xline"
    /\ normalized' = NormalizedBy("xline")
    /\ trace' = BuilderTrace("xline", responseDefect, matrix, coordsX, coordsY)
    /\ scene' = Scene("xline", responseDefect, matrix, coordsX, coordsY)
    /\ UNCHANGED <<matrix, coordsX, coordsY, responseDefect, orientationVars, rangeVars,
                   appVars, compassVars>>

\* create3DVisualization with the response stored for the sample axis
createSampleSlice ==
    /\ builder = "none"
    /\ builder' = "sample"
    /\ normalized' = NormalizedBy("sample")
    /\ trace' = BuilderTrace("sample", responseDefect, matrix, coordsX, coordsY)
    /\ scene' = Scene("sample", responseDefect, matrix, coordsX, coordsY)
    /\ UNCHANGED <<matrix, coordsX, coordsY, responseDefect, orientationVars, rangeVars,
                   appVars, compassVars>>

\* The slice builders on every response within the bounds.
MeshNext ==
    \/ createInlineSlice
    \/ createXlineSlice
    \/ createSampleSlice

\* cubes a scene is built for: the two of the folder and a cube of a single sample
MeshCubes == {1, 2, 3}

\* the viewer after it loaded a cube and the sliders were moved to some indices
MeshLoaded ==
    /\ files = Folder
    /\ activeFileIndex = 0
    /\ cubeInfo \in { Some(ds) : ds \in MeshCubes }
    /\ loading = FALSE
    /\ error = None
    /\ sliceIndices \in { f \in [Axes -> Indices] :
                            \A a \in Axes : f[a] < Shape(Val(cubeInfo))[Dim(a)] }
    /\ pendingSliceIndices = sliceIndices
    /\ sliceData = [a \in Axes |-> Some(SliceOf(Val(cubeInfo), a, sliceIndices[a]))]
    /\ isLoadingSlice = FALSE
    /\ contextMenu = FALSE
    /\ minQuantile = DefaultMinQuantile
    /\ maxQuantile = DefaultMaxQuantile
    /\ vmin = Some(BaseMin(AmplitudeRangeOf(Val(cubeInfo))))
    /\ vmax = Some(BaseMax(AmplitudeRangeOf(Val(cubeInfo))))
    /\ amplitudeInitialized = TRUE
    /\ debounceTimer = None
    /\ sliceFetches = EmptyBag
    /\ uploads = <<>>
    /\ serverCube = cubeInfo
    /\ burst = None
    /\ nChanges = 0
    /\ nUploads = 1
    /\ overwrote = FALSE
    /\ lastPreset = None
    /\ rangeBefore = None
    /\ sliceVisibility = AllVisible
    /\ plot = Some(Drawn(cubeInfo, vmin, vmax, sliceIndices, sliceData, sliceVisibility))
    /\ CompassPlotted

\* either the response or the cube and its committed indices vary
MeshInit ==
    /\ MeshLoaded
    /\ MeshResponse
    /\ OrientationIdle
    /\ RangeIdle
    /\ \/ /\ cubeInfo = Some(Folder[1])
          /\ sliceIndices = MiddleIndices(Folder[1])
       \/ /\ matrix = ValidResponse.data
          /\ coordsX = ValidResponse.x
          /\ coordsY = ValidResponse.y
          /\ responseDefect = "none"

MeshSpec == MeshInit /\ [][MeshNext]_vars

(***************************************************************************)
(* OrientationResolver (spec 4.3): the plot-space direction of north from  *)
(* the survey's inline and crossline vectors.  Vector components are       *)
(* integers; the components of the unit vector returned are in thousandths. *)
(***************************************************************************)
\* inline_vector and xline_vector of cube_info.orientation
Vectors == (-MaxComponent..MaxComponent) \X (-MaxComponent..MaxComponent)

\* the target direction north = [0, 1]
North == <<0, 1>>

\* Math.sqrt of a number of at most 1000000, rounded down
ISqrt(n) == CHOOSE r \in 0..1000 : r * r <= n /\ n < (r + 1) * (r + 1)

\* x / sqrt(x^2 + y^2) in thousandths
UnitComponent(x, y) ==
    LET magnitude == ISqrt((1000000 * x * x) \div (x * x + y * y))
    IN  IF x < 0 THEN -magnitude ELSE magnitude

\* mutant: no test of the determinant, a and b are always divided by it
OrientationResolverMutantNoFallback(inlineVec, xlineVec) ==
    LET det == inlineVec[1] * xlineVec[2] - inlineVec[2] * xlineVec[1]
        a == (North[1] * xlineVec[2] - North[2] * xlineVec[1]) * det
        b == (inlineVec[1] * North[2] - inlineVec[2] * North[1]) * det
    IN  [fallback |-> FALSE,
         direction |-> IF det = 0 THEN <<0, 0>>
                       ELSE <<UnitComponent(a, b), UnitComponent(b, a)>>,
         dividedBy |-> {det}]

\* mutant: the two coefficients are taken for each other
OrientationResolverMutantSwapped(inlineVec, xlineVec) ==
    LET det == inlineVec[1] * xlineVec[2] - inlineVec[2] * xlineVec[1]
        a == (inlineVec[1] * North[2] - inlineVec[2] * North[1]) * det
        b == (North[1] * xlineVec[2] - North[2] * xlineVec[1]) * det
    IN  IF det = 0
        THEN [fallback |-> TRUE, direction |-> <<0, 1000>>, dividedBy |-> {}]
        ELSE [fallback |-> FALSE,
              direction |-> <<UnitComponent(a, b), UnitComponent(b, a)>>,
              dividedBy |-> {det}]

\* north = a * inlineVector + b * xlineVector by Cramer's rule, (a, b) normalised
\* to unit length; with parallel vectors (|det| < epsilon: det = 0 for integer
\* components), the fallback arrow along the plot's secondary axis.  a and b are
\* multiplied by det * det, which leaves the direction of (a, b) as it is;
\* dividedBy holds the divisors of the divisions the path taken performs.
OrientationResolver(inlineVec, xlineVec) ==
    LET det == inlineVec[1] * xlineVec[2] - inlineVec[2] * xlineVec[1]
        a == (North[1] * xlineVec[2] - North[2] * xlineVec[1]) * det
        b == (inlineVec[1] * North[2] - inlineVec[2] * North[1]) * det
    IN  IF det = 0
        THEN [fallback |-> TRUE, direction |-> <<0, 1000>>, dividedBy |-> {}]
        ELSE [fallback |-> FALSE,
              direction |-> <<UnitComponent(a, b), UnitComponent(b, a)>>,
              dividedBy |-> {det}]

\* a cube_info with an orientation arrives
OrientationInput ==
    /\ inlineVector \in Vectors
    /\ xlineVector \in Vectors
    /\ northArrow = None

\* the north arrow is resolved for a render
ResolveOrientation ==
    /\ northArrow = None
    /\ northArrow' = Some(OrientationResolver(inlineVector, xlineVector))
    /\ UNCHANGED <<inlineVector, xlineVector, builderVars, rangeVars, appVars,
                   compassVars>>

OrientationInit == AppInit /\ MeshIdle /\ OrientationInput /\ RangeIdle

OrientationNext == ResolveOrientation

OrientationSpec == OrientationInit /\ [][OrientationNext]_vars

(***************************************************************************)
(* SliceUpdateScheduler: claims C1 to C5.                                  *)
(***************************************************************************)
Quiescent == debounceTimer = None /\ sliceFetches = EmptyBag /\ uploads = <<>>

\* C1.  The axes are debounced independently: a change of one axis neither cancels
\* nor postpones the pending timer of another axis, so every axis commits its last
\* value.  After one dataset load, in a state where no timer is pending, each axis
\* has committed the value its slider was last set to.
C1_AxesDebouncedIndependently ==
    (cubeInfo # None /\ nUploads = 1 /\ uploads = <<>> /\ debounceTimer = None)
        => \A a \in Axes : sliceIndices[a] = pendingSliceIndices[a]

\* C2.  A run of n >= 1 changes of one axis, each made while the timer of the one
\* before is pending and with no other event between them, produces no commit and
\* no fetch while its timer is pending, and exactly one commit and one fetch once
\* the timer has fired, both carrying the last value of the run.
C2_BurstCommitsOnce ==
    burst # None =>
        LET b == Val(burst)
            last == [sliceType |-> b.sliceType, index |-> b.last]
        IN  IF debounceTimer # None
            THEN b.commits = <<>> /\ b.fetches = <<>>
            ELSE /\ b.commits = <<last>>
                 /\ b.fetches = <<last>>
                 /\ sliceIndices[b.sliceType] = b.last

\* a run of three changes has been committed
C2_Witness ==
    /\ burst # None
    /\ Val(burst).n = 3
    /\ debounceTimer = None
    /\ Len(Val(burst).commits) = 1

\* C3.  A slider change sets the pending index of its axis to the new value, which
\* is the value its timer will commit, and changes neither a committed index, nor
\* the stored slice data, nor the pending index of another axis, and issues no
\* fetch.
C3_ChangeOnlySetsPending ==
    [][nChanges' # nChanges =>
          /\ debounceTimer' # None
          /\ LET timer == Val(debounceTimer')
             IN  pendingSliceIndices' =
                     [pendingSliceIndices EXCEPT ![timer.sliceType] = timer.index]
          /\ sliceIndices' = sliceIndices
          /\ sliceData' = sliceData
          /\ sliceFetches' = sliceFetches]_vars

\* a slider change is pending: its axis shows "Loading..."
C3_Witness ==
    /\ debounceTimer # None
    /\ \E a \in Axes : /\ Val(debounceTimer).sliceType = a
                       /\ pendingSliceIndices[a] = Val(debounceTimer).index
                       /\ pendingSliceIndices[a] # sliceIndices[a]

\* C4.  A 2xx answer to the fetch of a debounce callback is stored whatever the
\* committed index of its axis is by then.
C4_StoredUnconditionally ==
    [][\A request \in BagToSet(sliceFetches) :
          (SliceFetchOk(request) /\ serverCube # None) =>
              sliceData'[request.sliceType] =
                  Some([ds |-> Val(serverCube), index |-> request.index])]_vars

\* nothing is pending or in flight, an older answer has replaced a newer one, and
\* an axis shows the slice of an index that is not its committed index
C4_Witness ==
    /\ Quiescent
    /\ overwrote
    /\ \E a \in Axes : /\ sliceData[a] # None
                       /\ Val(sliceData[a]).index # sliceIndices[a]

\* C5.  A failed slice fetch, of a debounce callback or of the load that follows
\* an upload, leaves the slice data stored for its axis in place: an axis that has
\* slice data keeps having slice data.
C5_FailedFetchKeepsData ==
    [][\A a \in Axes : sliceData[a] # None => sliceData'[a] # None]_vars

BaseRangeOf(ds) ==
    LET ampRange == AmplitudeRangeOf(ds)
    IN  [min |-> IF ampRange.display_min # None THEN Val(ampRange.display_min)
                 ELSE IF ampRange.min # None THEN Val(ampRange.min) ELSE 0,
         max |-> IF ampRange.display_max # None THEN Val(ampRange.display_max)
                 ELSE IF ampRange.max # None /\ Val(ampRange.max) # 0
                      THEN Val(ampRange.max) ELSE 100]

\* baseMin + (baseMax - baseMin) * quantile, quantile in percent
ClippedAt(ds, quantile) ==
    BaseRangeOf(ds).min + ((BaseRangeOf(ds).max - BaseRangeOf(ds).min) * quantile) \div 100

\* C7.  The first display range computed for a dataset after its successful load
\* is the full base range of that dataset, whatever the quantiles are.
C7_LoadShowsFullRange ==
    [][\A k \in 1..Len(uploads) :
          UploadSucceeds(k) =>
              /\ vmin' = Some(BaseRangeOf(uploads[k].file).min)
              /\ vmax' = Some(BaseRangeOf(uploads[k].file).max)]_vars

\* C8.  Once the baseline of the loaded dataset is initialised, every change of
\* minQuantile or maxQuantile sets vmin = baseMin + (baseMax - baseMin) * minQuantile
\* and vmax = baseMin + (baseMax - baseMin) * maxQuantile; base range 0..100 with
\* quantiles 0.1 and 0.9 gives 10 and 90.
C8_QuantileChangeClips ==
    [][(/\ cubeInfo # None
        /\ amplitudeInitialized
        /\ (minQuantile' # minQuantile \/ maxQuantile' # maxQuantile))
          => /\ vmin' = Some(ClippedAt(Val(cubeInfo), minQuantile'))
             /\ vmax' = Some(ClippedAt(Val(cubeInfo), maxQuantile'))
             /\ (/\ BaseRangeOf(Val(cubeInfo)) = [min |-> 0, max |-> 10000]
                 /\ minQuantile' = 10
                 /\ maxQuantile' = 90)
                   => (vmin' = Some(1000) /\ vmax' = Some(9000))]_vars

\* base range 0..100 clipped to the quantiles 0.1 and 0.9
C8_Witness ==
    /\ cubeInfo # None
    /\ BaseRangeOf(Val(cubeInfo)) = [min |-> 0, max |-> 10000]
    /\ amplitudeInitialized
    /\ minQuantile = 10
    /\ maxQuantile = 90
    /\ vmin = Some(1000)
    /\ vmax = Some(9000)

\* C9.  Once a dataset is loaded and its baseline set, the selection of a quick
\* preset makes the display range the clipped range of that preset, also when the
\* quantiles already have the preset's values.
C9_PresetClips ==
    (lastPreset # None /\ Val(lastPreset).baselineSet /\ cubeInfo # None)
        => /\ vmin = Some(ClippedAt(Val(cubeInfo), Val(lastPreset).preset.min))
           /\ vmax = Some(ClippedAt(Val(cubeInfo), Val(lastPreset).preset.max))

(***************************************************************************)
(* CoordinateNormalizer: claim C10 (MeshSpec).                             *)
(***************************************************************************)
\* the coordinate array the builder that ran indexes columns by (coordsA)
ColumnCoords == IF builder = "sample" THEN coordsY ELSE coordsX

\* the coordinate array the builder that ran indexes rows by (coordsB)
RowCoords == IF builder = "sample" THEN coordsX ELSE coordsY

\* a 2-D array all rows of which have the length of the first
Rectangular(m) == Len(m) > 0 /\ \A r \in 1..Len(m) : Len(m[r]) = Len(m[1])

\* C10.  For a rectangular matrix M with M.length = a.length and
\* M[0].length = b.length, the normalisation step of each slice builder yields M'
\* with M'.length = b.length, M'[0].length = a.length and M'[i][j] = M[j][i].
C10_SwappedMatrixIsTransposed ==
    (/\ builder # "none"
     /\ responseDefect = "none"
     /\ Rectangular(matrix)
     /\ Len(matrix) = Len(ColumnCoords)
     /\ Len(matrix[1]) = Len(RowCoords))
        => /\ Len(normalized) = Len(RowCoords)
           /\ Len(normalized[1]) = Len(ColumnCoords)
           /\ \A i \in 1..Len(RowCoords), j \in 1..Len(ColumnCoords) :
                 normalized[i][j] = matrix[j][i]

\* the sample builder has transposed a matrix that is not square and not constant
C10_Witness ==
    /\ builder = "sample"
    /\ Len(matrix) = Len(ColumnCoords)
    /\ Len(matrix[1]) = Len(RowCoords)
    /\ Len(matrix) # Len(matrix[1])
    /\ \E i \in 1..Len(matrix) : matrix[i][1] # matrix[1][1]
    /\ normalized # matrix

(***************************************************************************)
(* CoordinateNormalizer: claims C11 to C13.                                *)
(***************************************************************************)
\* a builder ran on a response that has data, both coordinate arrays and a first row
Normalised == builder # "none" /\ responseDefect = "none" /\ Len(matrix) > 0

\* the response matrix has a row for each element of a and a column for each of b
Matches(a, b) == Len(matrix) = Len(a) /\ Len(matrix[1]) = Len(b)

\* C11 as stated.  For each of the three slice types, whenever the response matrix
\* matches the coordinate arrays in either orientation, the matrix used after
\* normalisation has data.length = coordinates.y.length and
\* data[0].length = coordinates.x.length.
C11_RowsFollowY ==
    (Normalised /\ (Matches(coordsX, coordsY) \/ Matches(coordsY, coordsX)))
        => /\ Len(normalized) = Len(coordsY)
           /\ Len(normalized[1]) = Len(coordsX)

\* C11, amended.  Whenever the response matrix matches the coordinate arrays in
\* either orientation, the matrix used after normalisation has, for the inline and
\* crossline slices, data.length = coordinates.y.length and
\* data[0].length = coordinates.x.length, and for the sample slice
\* data.length = coordinates.x.length and data[0].length = coordinates.y.length.
C11_RowsFollowRowCoords ==
    (Normalised /\ (Matches(coordsX, coordsY) \/ Matches(coordsY, coordsX)))
        => /\ Len(normalized) = Len(RowCoords)
           /\ Len(normalized[1]) = Len(ColumnCoords)

\* the sample builder ran on a matrix that is not square and has a row for each
\* element of coordinates.y, and transposed it
C11_Witness ==
    /\ Normalised
    /\ builder = "sample"
    /\ Matches(coordsY, coordsX)
    /\ Len(coordsX) # Len(coordsY)
    /\ Len(normalized) = Len(coordsX)
    /\ trace.result = "trace"

\* C12.  A matrix already in the expected orientation (a row for each element of
\* coordsB, a column for each element of coordsA) is used unchanged, also when the
\* two arrays have the same length; a matrix matching neither orientation is used
\* unchanged.
C12_ExpectedOrientationUnchanged ==
    (Normalised /\ Rectangular(matrix) /\ (Matches(RowCoords, ColumnCoords) \/ ~Matches(ColumnCoords, RowCoords)))
        => normalized = matrix

\* the matrix a builder has normalised, normalised once more by the same builder
\* with the two coordinate arrays taken for each other
NormalisedAgainSwapped ==
    CASE builder = "inline" -> InlineSliceMatrix(normalized, coordsY, coordsX)
      [] builder = "xline"  -> XlineSliceMatrix(normalized, coordsY, coordsX)
      [] builder = "sample" -> SampleSliceMatrix(normalized, coordsY, coordsX)

\* C13.  For a rectangular matrix M that is not square, with M.length = a.length
\* and M[0].length = b.length, normalising M against (a, b) and then the result
\* against (b, a) gives M back, cell for cell.
C13_NormaliseTwiceIsIdentity ==
    (/\ Normalised
     /\ Rectangular(matrix)
     /\ Len(matrix) # Len(matrix[1])
     /\ Matches(ColumnCoords, RowCoords))
        => NormalisedAgainSwapped = matrix

\* a matrix that is not square and not constant was transposed by the inline
\* builder, and transposing it again gives it back
C13_Witness ==
    /\ Normalised
    /\ builder = "inline"
    /\ Rectangular(matrix)
    /\ Len(matrix) # Len(matrix[1])
    /\ Matches(coordsX, coordsY)
    /\ \E i \in 1..Len(matrix), j \in 1..Len(matrix[1]) : matrix[i][j] # matrix[1][1]
    /\ normalized # matrix
    /\ NormalisedAgainSwapped = matrix

(***************************************************************************)
(* SliceMeshBuilder: claims C14 to C18.                                    *)
(***************************************************************************)
\* the entry [i][j] of a 2-D array, None where it has none
At(m, i, j) == IF i <= Len(m) /\ j <= Len(m[i]) THEN m[i][j] ELSE None

\* the cells of the trace: a row for each element of RowCoords, a column for each
\* element of ColumnCoords
TraceCells == (1..Len(RowCoords)) \X (1..Len(ColumnCoords))

\* C14.  For every cell whose matrix entry is undefined or null (cells of a
\* missing row included) the trace carries the sentinel -0.999 in surfacecolor and
\* in the hover text; every other cell carries the numeric value of the entry.
C14_SentinelInColourAndText ==
    (builder # "none" /\ trace.result = "trace") =>
        \A cell \in TraceCells :
            LET i == cell[1]
                j == cell[2]
                amplitude == IF At(normalized, i, j) = None
                             THEN Sentinel
                             ELSE Val(At(normalized, i, j))
            IN  /\ At(trace.surfacecolor, i, j) = Some(amplitude)
                /\ trace.text[i][j].amplitude = amplitude

\* rows and columns of a 2-D array
ShapeOf(m) == <<Len(m), [i \in 1..Len(m) |-> Len(m[i])]>>

\* C15.  xMesh, yMesh, zMesh, surfacecolor and the hover text of a trace all have
\* the same number of rows and of columns, for every response with a 2-D data
\* array, one that matches the coordinate arrays in neither orientation included.
C15_TraceArraysSameShape ==
    (builder # "none" /\ trace.result = "trace") =>
        /\ ShapeOf(trace.y) = ShapeOf(trace.x)
        /\ ShapeOf(trace.z) = ShapeOf(trace.x)
        /\ ShapeOf(trace.text) = ShapeOf(trace.x)
        /\ ShapeOf(trace.surfacecolor) = ShapeOf(trace.x)

\* the numbers v with v = range.min + index * (range.max - range.min) / (count - 1)
SampleValues(range, index) ==
    { v \in range.min..range.max :
          /\ range.count - 1 # 0
          /\ (v - range.min) * (range.count - 1) = index * (range.max - range.min) }

\* C16.  In every slice trace the slice's own axis is constant and equal to the
\* value the committed index implies: inline_range.min + index for the inline slice
\* (y), xline_range.min + index for the crossline slice (x),
\* sample_range.min + index * (max - min) / (count - 1) for the sample slice (z), a
\* defined number for every committed index; the two other axes take cell by cell
\* the values of the response's coordinate arrays.
C16_OwnAxisAtCommittedIndex ==
    (builder # "none" /\ trace.result = "trace") =>
        LET cube == Val(cubeInfo) IN
        \A cell \in TraceCells :
            LET i == cell[1]
                j == cell[2]
            IN  CASE builder = "inline" ->
                       /\ trace.y[i][j] =
                              Some(AxisRangeOf(cube, "inline").min + sliceIndices.inline)
                       /\ trace.x[i][j] = coordsX[j]
                       /\ trace.z[i][j] = coordsY[i]
                  [] builder = "xline" ->
                       /\ trace.x[i][j] =
                              Some(AxisRangeOf(cube, "xline").min + sliceIndices.xline)
                       /\ trace.y[i][j] = coordsX[j]
                       /\ trace.z[i][j] = coordsY[i]
                  [] builder = "sample" ->
                       /\ \E v \in SampleValues(AxisRangeOf(cube, "sample"),
                                                sliceIndices.sample) :
                              trace.z[i][j] = Some(v)
                       /\ trace.x[i][j] = coordsY[j]
                       /\ trace.y[i][j] = coordsX[i]

\* C17.  When the stored response of an axis lacks data or coordinates, or its
\* data[0] is undefined or not an array, the builder of that axis returns null, the
\* scene omits that slice, and the cube outline and the other visible slices with
\* valid responses are rendered.
C17_InvalidShapeOmitsSlice ==
    (/\ builder # "none"
     /\ \/ responseDefect \in {"data", "coordinates", "flat"}
        \/ responseDefect = "none" /\ matrix = <<>>)
        => /\ trace = NoTrace
           /\ ~scene.threw
           /\ scene.traces = {"outline"} \cup (Axes \ {builder})

\* the inline response has no data: the scene is the outline and the two other
\* slices
C17_Witness ==
    /\ builder = "inline"
    /\ responseDefect = "data"
    /\ trace = NoTrace
    /\ scene.traces = {"outline", "xline", "sample"}

\* C18.  For every stored slice response, one whose coordinates lack x or y, whose
\* coordinate arrays hold null entries or whose data rows have unequal lengths
\* included, each builder returns a trace or null, and no exception escapes
\* create3DVisualization.
C18_NoExceptionEscapes ==
    builder # "none" => (trace.result \in {"trace", "null"} /\ ~scene.threw)

(***************************************************************************)
(* Colour bounds of the rendered scene: claim C19.                         *)
(***************************************************************************)
\* C19.  In every rendered scene each slice trace has cmin and cmax equal to the
\* amplitude display range (vmin, vmax), and every change of the display range is
\* followed by a re-render in which the slice traces carry the new bounds: once an
\* action and its render are over, a plot that shows slice traces has the bounds
\* of the display range in force.
C19_PlotCarriesDisplayRange ==
    (plot # None /\ Val(plot).slices # {} /\ vmin # None /\ vmax # None)
        => (Val(plot).cmin = Val(vmin) /\ Val(plot).cmax = Val(vmax))

(***************************************************************************)
(* OrientationResolver: claim C20.                                         *)
(***************************************************************************)
\* C20.  For the orthogonal unit basis inlineVector = [1, 0], xlineVector = [0, 1]
\* the orientation resolver returns the plot-space north direction [0, 1], and not
\* by its fallback.
C20_OrthogonalBasisGivesNorth ==
    (northArrow # None /\ inlineVector = <<1, 0>> /\ xlineVector = <<0, 1>>)
        => (~Val(northArrow).fallback /\ Val(northArrow).direction = <<0, 1000>>)

\* the resolver has run on the orthogonal unit basis
C20_Witness ==
    /\ northArrow # None
    /\ inlineVector = <<1, 0>>
    /\ xlineVector = <<0, 1>>
    /\ ~Val(northArrow).fallback

\* the determinant of the resolver's 2x2 system
Det == inlineVector[1] * xlineVector[2] - inlineVector[2] * xlineVector[1]

\* C21.  Given parallel basis vectors (determinant 0, e.g. inlineVector = [1, 0] and
\* xlineVector = [1, 0]) the orientation resolver returns the fallback arrow, marked
\* so that it differs from every normal resolution (the mark is set exactly when
\* the determinant is 0), and divides nothing by the determinant.
C21_ParallelBasisGivesFallback ==
    northArrow # None
        => /\ Val(northArrow).fallback <=> (Det = 0)
           /\ Det = 0 => /\ Val(northArrow).direction = <<0, 1000>>
                          /\ Val(northArrow).dividedBy = {}

\* the resolver has run on inlineVector = xlineVector = [1, 0]
C21_Witness ==
    /\ northArrow # None
    /\ inlineVector = <<1, 0>>
    /\ xlineVector = <<1, 0>>
    /\ Val(northArrow).fallback

(***************************************************************************)
(* Slice indices and the displayed slices: claims C26, C28 and C29.        *)
(***************************************************************************)
\* the values a slice index of the loaded cube may take: 0 to shape[dim] - 1
InShape(indices) ==
    \A a \in Axes : indices[a] \in 0..(Shape(Val(cubeInfo))[Dim(a)] - 1)

\* C26.  In every reachable state in which a dataset is loaded, each committed and
\* each pending slice index lies in [0, shape[dim]-1] of the loaded cubeInfo,
\* whatever the interleaving of slider events, timer firings and dataset loads or
\* switches.
C26_IndicesInsideCube ==
    cubeInfo # None => (InShape(sliceIndices) /\ InShape(pendingSliceIndices))

\* C28.  In any state with no debounce timer pending, the pending index of every
\* axis equals its committed index, whatever the interleaving of index changes on
\* the three axes and dataset loads.
C28_PendingEqualsCommittedAtRest ==
    debounceTimer = None => pendingSliceIndices = sliceIndices

\* C29.  In every rendered scene each slice surface is positioned at the index its
\* data was fetched for: whenever create3DVisualization has drawn, the stored data
\* of each drawn axis is the response to the fetch for the committed index the
\* surface is placed at, also while a fetch is in flight or after a failed fetch.
C29_SurfaceAtIndexOfItsData ==
    plot # None =>
        \A a \in Val(plot).slices :
            Val(Val(plot).data[a]).index = Val(plot).position[a]

(***************************************************************************)
(* Overlapping uploads from a loaded viewer: claim C30.                    *)
(***************************************************************************)
\* The viewer after the folder was chosen and its first file loaded (lines 141-157):
\* the state in which the context menu can switch files.  nUploads counts the
\* uploads started from here on.
ViewerLoaded ==
    /\ files = Folder
    /\ activeFileIndex = 0
    /\ cubeInfo = Some(Folder[1])
    /\ loading = FALSE
    /\ error = None
    /\ sliceIndices = MiddleIndices(Folder[1])
    /\ pendingSliceIndices = sliceIndices
    /\ sliceData = [a \in Axes |-> Some(SliceOf(Folder[1], a, sliceIndices[a]))]
    /\ isLoadingSlice = FALSE
    /\ contextMenu = FALSE
    /\ minQuantile = DefaultMinQuantile
    /\ maxQuantile = DefaultMaxQuantile
    /\ vmin = Some(BaseMin(AmplitudeRangeOf(Folder[1])))
    /\ vmax = Some(BaseMax(AmplitudeRangeOf(Folder[1])))
    /\ amplitudeInitialized = TRUE
    /\ debounceTimer = None
    /\ sliceFetches = EmptyBag
    /\ uploads = <<>>
    /\ serverCube = cubeInfo
    /\ burst = None
    /\ nChanges = 0
    /\ nUploads = 0
    /\ overwrote = FALSE
    /\ lastPreset = None
    /\ rangeBefore = None
    /\ sliceVisibility = AllVisible
    /\ plot = Some(Drawn(cubeInfo, vmin, vmax, sliceIndices, sliceData, sliceVisibility))
    /\ CompassPlotted

LoadedInit == ViewerLoaded /\ MeshIdle /\ OrientationIdle /\ RangeIdle

\* The user chooses the folder or switches files at any time, also while an upload
\* is in flight; sliders and quantile panel are left alone.  The network is up:
\* every request is answered, with a 2xx status or another.
SwitchNext ==
    \/ UploadStarts
    \/ \E k \in 1..Len(uploads) : UploadSucceeds(k)
    \/ \E k \in 1..Len(uploads) : UploadFails(k)
    \/ \E k \in 1..Len(uploads) : LoadSliceOk(k)
    \/ \E k \in 1..Len(uploads) : LoadSliceNotOk(k)

SwitchSpec == LoadedInit /\ [][SwitchNext]_vars

\* the file of the upload that was started last: handleFileUpload and
\* handleFileSwitch set activeFileIndex when they start (lines 125, 234)
LastStarted == files[activeFileIndex + 1]

\* C30.  When uploads overlap, then after all of them have completed (none failed)
\* cubeInfo, the committed and pending indices and the stored slice data are those
\* of the upload that was started last, whatever order the responses arrive in.
C30_LastStartedUploadWins ==
    (uploads = <<>> /\ error = None /\ cubeInfo # None)
        => /\ cubeInfo = Some(LastStarted)
           /\ sliceIndices = MiddleIndices(LastStarted)
           /\ pendingSliceIndices = MiddleIndices(LastStarted)
           /\ \A a \in Axes :
                 sliceData[a] # None
                    => Val(sliceData[a]) = SliceOf(LastStarted, a, MiddleIndices(LastStarted)[a])

(***************************************************************************)
(* The camera and the compass: claims C22 to C25 and C27.                  *)
(***************************************************************************)
MaxMoves == 2

MaxNotifications == 2

MaxSliderMoves == 2

CameraEvents == {"plotly_relayout", "plotly_animated"}

otherCompassVars == <<listeners, pollIntervals, pollIntervalRef, mounted>>

\* the rendering engine moves the camera of the plot (the user orbits, or presses
\* 'Reset camera', lines 396-404)
MoveCamera(eye) ==
    /\ mounted
    /\ cameraEye # None
    /\ eye # Val(cameraEye)
    /\ nMoves < MaxMoves
    /\ cameraEye' = Some(eye)
    /\ reachedEye' = Some(eye)
    /\ nMoves' = nMoves + 1
    /\ UNCHANGED <<compassRotation, compassTimeouts, nNotifications, lastUpdate,
                   otherCompassVars, appVars, meshVars>>

\* mutant: the listener calls updateCompass at once
NotifyMutantImmediate(event) ==
    /\ mounted
    /\ cameraEye # None
    /\ nNotifications < MaxNotifications
    /\ updateCompass(cameraEye, "timeout", cameraEye)
    /\ nNotifications' = nNotifications + 1
    /\ UNCHANGED <<cameraEye, reachedEye, compassTimeouts, nMoves, otherCompassVars,
                   appVars, meshVars>>

\* the rendering engine emits plotly_relayout or plotly_animated: each listener of
\* lines 413-419 sets a timeout of 100 ms for updateCompass
Notify(event) ==
    /\ mounted
    /\ cameraEye # None
    /\ nNotifications < MaxNotifications
    /\ compassTimeouts' = compassTimeouts (+) (Val(cameraEye) :> listeners)
    /\ nNotifications' = nNotifications + 1
    /\ UNCHANGED <<compassRotation, cameraEye, reachedEye, nMoves, lastUpdate,
                   otherCompassVars, appVars, meshVars>>

\* a timeout of lines 414, 418 expires: updateCompass runs
CompassTimeoutFires(arrival) ==
    /\ BagIn(arrival, compassTimeouts)
    /\ compassTimeouts' = compassTimeouts (-) SetToBag({arrival})
    /\ updateCompass(cameraEye, "timeout", Some(arrival))
    /\ UNCHANGED <<cameraEye, reachedEye, nMoves, nNotifications, otherCompassVars,
                   appVars, meshVars>>

\* a tick of an interval of lines 425-437, whose callback closed over the
\* compassRotation captured
PollTick(captured) ==
    /\ BagIn(captured, pollIntervals)
    /\ IF cameraEye # None /\ Abs(CompassAngle(Val(cameraEye)) - captured) > Threshold
       THEN updateCompass(cameraEye, "poll", None)
       ELSE UNCHANGED <<compassRotation, lastUpdate>>
    /\ UNCHANGED <<cameraEye, reachedEye, compassTimeouts, nMoves, nNotifications,
                   otherCompassVars, appVars, meshVars>>

\* mutant: the cleanup clears no timer
UnmountMutantKeepsTimers ==
    /\ mounted
    /\ mounted' = FALSE
    /\ plot' = None
    /\ cameraEye' = None
    /\ listeners' = 0
    /\ UNCHANGED <<debounceTimer, pollIntervals>>
    /\ UNCHANGED <<files, activeFileIndex, cubeInfo, loading, error, sliceIndices,
                   pendingSliceIndices, sliceData, isLoadingSlice, contextMenu,
                   minQuantile, maxQuantile, vmin, vmax, amplitudeInitialized,
                   sliceFetches, uploads, serverCube, burst, nChanges, nUploads,
                   overwrote, lastPreset, rangeBefore, sliceVisibility, compassRotation,
                   pollIntervalRef,
                   compassTimeouts, nMoves, nNotifications, reachedEye, lastUpdate,
                   meshVars>>

\* the component unmounts: the cleanup of lines 752-761 clears the debounce timer
\* and the interval pollIntervalRef names; plotDiv goes
Unmount ==
    /\ mounted
    /\ mounted' = FALSE
    /\ plot' = None
    /\ cameraEye' = None
    /\ listeners' = 0
    /\ debounceTimer' = None
    /\ pollIntervals' = ClearPoll
    /\ UNCHANGED <<files, activeFileIndex, cubeInfo, loading, error, sliceIndices,
                   pendingSliceIndices, sliceData, isLoadingSlice, contextMenu,
                   minQuantile, maxQuantile, vmin, vmax, amplitudeInitialized,
                   sliceFetches, uploads, serverCube, burst, nChanges, nUploads,
                   overwrote, lastPreset, rangeBefore, sliceVisibility, compassRotation,
                   pollIntervalRef,
                   compassTimeouts, nMoves, nNotifications, reachedEye, lastUpdate,
                   meshVars>>

\* the user moves the inline slider, MaxSliderMoves times at most; its timer fires and
\* its fetch answers while the component is mounted (each re-plots)
SliderAnswers ==
    \/ mounted /\ DebounceFires
    \/ \E request \in BagToSet(sliceFetches) : mounted /\ SliceFetchOk(request)
    \/ \E request \in BagToSet(sliceFetches) : mounted /\ SliceFetchFails(request)

SliderNext ==
    \/ \E index \in Indices :
          mounted /\ nChanges < MaxSliderMoves /\ handleSliceChange("inline", index)
    \/ SliderAnswers

CompassNext ==
    \/ SliderNext
    \/ \E eye \in Eyes : MoveCamera(eye)
    \/ \E event \in CameraEvents : Notify(event)
    \/ \E arrival \in BagToSet(compassTimeouts) : CompassTimeoutFires(arrival)
    \/ \E captured \in BagToSet(pollIntervals) : PollTick(captured)
    \/ Unmount

CompassSpec == LoadedInit /\ [][CompassNext]_vars

\* The reconciliation poll alone: the camera moves, no notification is delivered,
\* the component stays mounted.  An interval ticks every 50 ms, a debounce timer
\* fires after 150 ms and a fetch is answered or fails.
CompassPollNext ==
    \/ SliderNext
    \/ \E eye \in Eyes : MoveCamera(eye)
    \/ \E captured \in BagToSet(pollIntervals) : PollTick(captured)

CompassPollSpec ==
    /\ LoadedInit
    /\ [][CompassPollNext]_vars
    /\ WF_vars(\E captured \in BagToSet(pollIntervals) : PollTick(captured))
    /\ WF_vars(SliderAnswers)

\* C22.  updateCompass sets the displayed compass angle to -azimuth + 45 with
\* azimuth = atan2(eye.y, eye.x) in degrees: eye [1, 0, z] (azimuth 0) gives 45,
\* eye [0, 1, z] (azimuth 90) gives -45, and the initial camera eye (1.6, 1.6, 1.4)
\* gives the displayed angle 0.
C22_CompassAngleOfEye ==
    lastUpdate # None =>
        LET eye == Val(lastUpdate).eye
        IN  /\ (eye[1] = 1000 /\ eye[2] = 0) =>
                   (Atan2Degrees(eye[2], eye[1]) = 0 /\ compassRotation = 45000)
            /\ (eye[1] = 0 /\ eye[2] = 1000) =>
                   (Atan2Degrees(eye[2], eye[1]) = 90000 /\ compassRotation = -45000)
            /\ eye = <<1600, 1600, 1400>> => compassRotation = 0

\* updateCompass ran, from a timeout, with the camera eye at [1, 0, z]
C22_Witness ==
    /\ lastUpdate # None
    /\ Val(lastUpdate).by = "timeout"
    /\ Val(lastUpdate).eye = <<1000, 0, 1400>>
    /\ compassRotation = 45000

\* C23.  The displayed compass angle changes only when the angle expected from the
\* current camera eye differs from the last displayed angle by more than the
\* threshold: no poll tick and no camera-change callback changes it when the
\* difference is at most the threshold.
C23_ChangesOnlyBeyondThreshold ==
    [][(compassRotation' # compassRotation /\ Val(lastUpdate').by # "plot")
          => Abs(CompassAngle(Val(lastUpdate').eye) - compassRotation) > Threshold]_vars

\* the displayed angle is within the threshold of the angle of the camera eye
Converged ==
    cameraEye # None => Abs(compassRotation - CompassAngle(Val(cameraEye))) <= Threshold

\* C24.  Without camera-change notifications the poll converges: once the camera
\* has stopped moving, the displayed compass angle eventually differs from
\* -azimuth(eye) + 45 by at most the threshold, and stays so.
C24_PollConverges == <>[]Converged

\* C25.  Every camera-change notification schedules one compass recomputation
\* that runs later (it changes nothing itself), and the recomputation uses the
\* camera eye as it is when the delay expires.
C25_NotificationSchedulesOneUpdate ==
    [][/\ nNotifications' # nNotifications
            => /\ BagCardinality(compassTimeouts') = BagCardinality(compassTimeouts) + 1
               /\ compassRotation' = compassRotation
       /\ (BagCardinality(compassTimeouts') < BagCardinality(compassTimeouts)
              /\ cameraEye # None)
            => compassRotation' = CompassAngle(Val(cameraEye))]_vars

\* a timeout expired after the camera had moved on from where it was when the
\* notification arrived, and the angle is that of the eye at expiry
C25_Witness ==
    /\ lastUpdate # None
    /\ Val(lastUpdate).by = "timeout"
    /\ Val(lastUpdate).arrival # Some(Val(lastUpdate).eye)
    /\ compassRotation = CompassAngle(Val(lastUpdate).eye)
    /\ compassRotation # CompassAngle(Val(Val(lastUpdate).arrival))

\* C27.  At any time at most one reconciliation poll interval is active (each
\* re-plot clears the previous one before it starts its own), and after the
\* component has unmounted no poll interval and no debounce timer is active.
C27_OnePollNoneAfterUnmount ==
    /\ BagCardinality(pollIntervals) <= 1
    /\ ~mounted => (pollIntervals = EmptyBag /\ debounceTimer = None)

\* the component unmounted while a slider change was waiting for its timer, after
\* a re-plot had replaced the first interval
C27_Witness ==
    /\ ~mounted
    /\ pendingSliceIndices # sliceIndices
    /\ pollIntervalRef # Some(0)

(***************************************************************************)
(* Loading flag, load results, active file: claims C31 to C34.             *)
(***************************************************************************)
\* C31.  The loading flag is true in every state in which an upload request or the
\* three-slice load that follows it is in flight, and false once none is; the
\* completion of one of two overlapping uploads does not clear it while the other
\* is still running.
C31_LoadingWhileUploadInFlight ==
    loading <=> (uploads # <<>>)

MaxReloads == 1

\* A loaded viewer with its sliders, reloaded or switched MaxReloads times at most,
\* one upload at a time; the backend answers the upload and the three slice
\* fetches of the load with 2xx (the load is successful).
ReloadNext ==
    \/ nUploads < MaxReloads /\ uploads = <<>> /\ handleFileUpload
    \/ uploads = <<>> /\ OpenContextMenu
    \/ \E fileIndex \in 0..(Len(Folder) - 1) :
          nUploads < MaxReloads /\ uploads = <<>> /\ FileMenuClick(fileIndex)
    \/ \E k \in 1..Len(uploads) : UploadSucceeds(k)
    \/ \E k \in 1..Len(uploads) : LoadSliceOk(k)
    \/ SchedulerNext

ReloadSpec == LoadedInit /\ [][ReloadNext]_vars

\* the three middle slices of a dataset
MiddleSlices(ds) == [a \in Axes |-> Some(SliceOf(ds, a, MiddleIndices(ds)[a]))]

\* C32.  After a successful dataset load has completed, and until the next
\* index-change event (burst is None from the load to that event), the committed
\* and the pending index of each axis are floor(shape[dim] / 2) and the stored
\* slice data are the three middle slices of the dataset: a debounce timer or a
\* slice fetch started before the load does not alter them.
C32_LoadResultStays ==
    (cubeInfo # None /\ uploads = <<>> /\ burst = None)
        => /\ sliceIndices = MiddleIndices(Val(cubeInfo))
           /\ pendingSliceIndices = MiddleIndices(Val(cubeInfo))
           /\ sliceData = MiddleSlices(Val(cubeInfo))

\* an upload over a loaded dataset has failed and none is in flight
FailedOverLoaded ==
    /\ uploads = <<>>
    /\ error # None
    /\ cubeInfo # None
    /\ rangeBefore # None

\* C33.  A failed upload over an already loaded dataset leaves the amplitude state
\* unchanged: after the failure the display range used for rendering is the range
\* in use before the upload was started, and the next quantile change applies the
\* quantile clipping formula instead of re-initialising the range to the full
\* base range.
C33_FailedUploadKeepsAmplitude ==
    [][/\ FailedOverLoaded' => getAmplitudeRange' = Val(rangeBefore')
       /\ (FailedOverLoaded /\ (minQuantile' # minQuantile \/ maxQuantile' # maxQuantile))
            => /\ vmin' = Some(Clip(AmplitudeRangeOf(Val(cubeInfo)), minQuantile'))
               /\ vmax' = Some(Clip(AmplitudeRangeOf(Val(cubeInfo)), maxQuantile'))]_vars

\* C34.  Whenever a dataset is loaded and no upload is in flight, activeFileIndex is
\* the index of the file the current cubeInfo was loaded from (so a failed switch
\* leaves it at its previous value); a click on the active file of the menu starts
\* no upload and changes nothing but the menu it closes.
C34_ActiveFileIsLoadedFile ==
    [][/\ (cubeInfo' # None /\ uploads' = <<>>)
            => cubeInfo' = Some(files'[activeFileIndex' + 1])
       /\ (contextMenu /\ ~contextMenu' /\ uploads' = uploads)
            => UNCHANGED <<files, activeFileIndex, cubeInfo, loading, error,
                           sliceIndices, pendingSliceIndices, sliceData, vmin, vmax,
                           amplitudeInitialized, debounceTimer, sliceFetches,
                           serverCube>>]_vars

(***************************************************************************)
(* Slice visibility: claim C36.                                            *)
(***************************************************************************)
MaxToggles == 2

\* handleVisibilityChange(sliceType), from a box of lines 911-929, which are rendered
\* when cubeInfo && !loading (line 841)
handleVisibilityChange(sliceType) ==
    /\ mounted
    /\ cubeInfo # None
    /\ ~loading
    /\ sliceVisibility' = [sliceVisibility EXCEPT ![sliceType] = ~@]
    /\ UNCHANGED <<files, activeFileIndex, cubeInfo, loading, error, sliceIndices,
                   pendingSliceIndices, sliceData, isLoadingSlice, contextMenu,
                   minQuantile, maxQuantile, vmin, vmax, amplitudeInitialized,
                   debounceTimer, sliceFetches, uploads, serverCube, burst, nChanges,
                   nUploads, overwrote, lastPreset, rangeBefore, meshVars>>
    /\ RenderPlot(FALSE)

Hidden == { a \in Axes : ~sliceVisibility[a] }

\* the folder is chosen, files are switched, uploads and slice loads answer, and the
\* user ticks and unticks the visibility boxes, hiding MaxToggles slices at most
VisibilityNext ==
    \/ UploadStarts
    \/ UploadAnswers
    \/ \E sliceType \in Axes :
          /\ sliceVisibility[sliceType] => Cardinality(Hidden) < MaxToggles
          /\ handleVisibilityChange(sliceType)

VisibilitySpec == Init /\ [][VisibilityNext]_vars

\* C36.  handleVisibilityChange flips the visibility of one axis and leaves the
\* committed and pending indices, the stored slice data, the fetches in flight and
\* the debounce timer alone; the scene after a toggle differs from the scene before
\* it in the trace of that axis at most (so a second toggle restores it); and a
\* rendered scene always holds the 12 outline traces and a slice trace of an axis
\* only if that axis is visible and has stored data.
C36_VisibilityOnlyAndSceneOfVisibleData ==
    [][/\ sliceVisibility' # sliceVisibility
            => /\ \E sliceType \in Axes :
                     /\ sliceVisibility' = [sliceVisibility EXCEPT ![sliceType] = ~@]
                     /\ (plot # None /\ plot' # None)
                           => /\ Val(plot').slices \ {sliceType}
                                   = Val(plot).slices \ {sliceType}
                              /\ [Val(plot') EXCEPT !.slices = {}]
                                   = [Val(plot) EXCEPT !.slices = {}]
               /\ UNCHANGED <<sliceIndices, pendingSliceIndices, sliceData,
                              sliceFetches, debounceTimer>>
       /\ plot' # None
            => /\ Cardinality(Val(plot').outline) = 12
               /\ \A a \in Val(plot').slices :
                     sliceVisibility'[a] /\ sliceData'[a] # None]_vars

(***************************************************************************)
(* The camera across re-plots: claim C35.                                  *)
(***************************************************************************)
\* the user orbits the camera, changes the minimum quantile and chooses the folder
\* once more; the upload and the slice loads answer; the poll ticks
CameraNext ==
    \/ \E eye \in Eyes : MoveCamera(eye)
    \/ \E q \in MinQuantileInputs : uploads = <<>> /\ ChangeMinQuantile(q)
    \/ nUploads < MaxReloads /\ uploads = <<>> /\ handleFileUpload
    \/ \E k \in 1..Len(uploads) : UploadSucceeds(k)
    \/ \E k \in 1..Len(uploads) : LoadSliceOk(k)
    \/ \E captured \in BagToSet(pollIntervals) : PollTick(captured)

CameraSpec == LoadedInit /\ [][CameraNext]_vars

\* the displayed compass angle is the angle of the eye the user had reached
InSync == reachedEye # None /\ compassRotation = CompassAngle(Val(reachedEye))

\* C35.  A state change that leaves a plot on screen keeps the camera pose the user
\* had reached: once a plot was drawn, the eye of the plot after the change is the
\* eye of the last plot before it, and a compass that showed the angle of that eye
\* shows the same angle afterwards; only a first plot uses the default eye.
C35_ReplotKeepsCamera ==
    [][(appVars' # appVars /\ cameraEye' # None /\ reachedEye # None)
          => /\ cameraEye' = reachedEye
             /\ InSync => compassRotation' = compassRotation]_vars

Amplitudes == {-2000, 0, 4000}

\* cube_info.amplitude_range: each of its six fields is present or not
AmplitudeRecords ==
    [display_min : {None} \cup {Some(v) : v \in Amplitudes},
     display_max : {None} \cup {Some(v) : v \in Amplitudes},
     actual_min  : {None} \cup {Some(v) : v \in Amplitudes},
     actual_max  : {None} \cup {Some(v) : v \in Amplitudes},
     min         : {None} \cup {Some(v) : v \in Amplitudes},
     max         : {None} \cup {Some(v) : v \in Amplitudes}]

\* a cube_info with an amplitude_range arrives
RangeInput ==
    /\ amplitudeRange \in AmplitudeRecords
    /\ effectBase = None
    /\ fallbackRange = None

\* the quantile effect reads its base range, lines 99-100
ReadEffectBase ==
    /\ effectBase = None
    /\ effectBase' = Some([min |-> BaseMin(amplitudeRange), max |-> BaseMax(amplitudeRange)])
    /\ UNCHANGED <<amplitudeRange, fallbackRange, builderVars, orientationVars, appVars,
                   compassVars>>

\* getAmplitudeRange() is called while vmin and vmax are null, lines 82-92
ReadFallbackRange ==
    /\ fallbackRange = None
    /\ fallbackRange' = Some(FallbackRange(amplitudeRange))
    /\ UNCHANGED <<amplitudeRange, effectBase, builderVars, orientationVars, appVars,
                   compassVars>>

RangeInit == AppInit /\ MeshIdle /\ OrientationIdle /\ RangeInput

RangeNext == ReadEffectBase \/ ReadFallbackRange

RangeSpec == RangeInit /\ [][RangeNext]_vars

\* C38.  For every amplitude_range record, the base range the quantile effect uses
\* is the range getAmplitudeRange returns while no display range is set.
C38_EffectBaseIsFallbackRange ==
    (effectBase # None /\ fallbackRange # None) => effectBase = fallbackRange

====
